---- MODULE Spec2Model ----
(***************************************************************************)
(* A model of the EzeeML training harness (torchlight / torchlite):        *)
(*   - TrainCallbackList     torchlight/nn/train_callbacks.py              *)
(*   - the Learner loop      (torchlight.nn.learner, described in spec.md  *)
(*                            section 4.1; its source is not in src/)      *)
(*   - SRGAN.forward         torchlight/nn/models/srgan.py                 *)
(*   - ReduceLROnPlateau     torchlite/torch/train_callbacks.py and        *)
(*                           torchlight/nn/train_callbacks.py              *)
(*   - ModelSaverCallback    restore_models / restore_model                *)
(* Each component has its own specification over its own variables; the    *)
(* variables of the other components stay at their initial value.          *)
(***************************************************************************)
EXTENDS Integers, Sequences, FiniteSets, TLC

\* ------------------------------------------------------------------ bounds
MaxEpochs == 2
MaxBatches == 2
MaxCallbacks == 2
MaxForward == 2
MaxAppends == 2
MaxLoss == 2
MaxCalls == 2
MaxModels == 2
MaxUpdates == 4

\* Calls of ClassifierCore.on_forward_batch
MaxCoreCalls == 3

VARIABLES
    \* --- Learner.train (one process; pc is its position in the loop)
    callbacks,      \* TrainCallbackList.callbacks: a sequence of callback objects
    num_epochs,     \* the epochs argument of train
    train_len,      \* number of batches of train_source
    val_len,        \* number of batches of val_source, NoSource when it is None
    pc,             \* position of the loop
    epoch,          \* current epoch, 1..num_epochs
    batch,          \* index of the current batch in the current loop
    step,           \* "training" | "validation"
    trace,          \* every call received by a callback or by the core, in order
    run,            \* 1 in the first run of train, 2 in the second
    prevTrace,      \* the trace of the first run, once the second has started
    failure,        \* the notification in which a callback raised, if one did
    \* --- a TrainCallbackList used on its own
    cbl,            \* its callbacks list
    cbl_given,      \* the list given to the constructor
    cbl_appended,   \* the callbacks appended since, in order
    cbl_calls,      \* the calls made by the last notification since the last append
    cbl_last,       \* that notification: hook and index argument
    cbl_after,      \* the content of the logs dict when that notification ended
    \* --- SRGAN.forward (pc is the statement of forward being executed)
    sr_pc,          \* 0: not in forward; else an index in SRGAN_forward
    sr_sub,         \* inside _optimize: "zero_grad" | "backward" | "step"
    sr_ops,         \* gradient and optimizer operations of the current call
    sr_calls,       \* number of calls of forward so far
    sr_training,    \* the module's training flag (train() / eval())
    sr_params,      \* version of the parameters of netD and netG
    sr_grad,        \* the losses accumulated in the gradients of netD and netG
    sr_loc,         \* the locals of forward
    sr_err,         \* "none" or the error forward raised
    \* --- ReduceLROnPlateau.on_epoch_end
    rlr_lib,        \* "torchlite" | "torchlight": the module the class is from
    rlr_loss_step,  \* the loss_step given to the constructor
    rlr_epoch,      \* the epoch argument of the last call
    rlr_logs,       \* the logs argument of the last call
    rlr_result,     \* "none" | "returned" | "ValueError": how the last call ended
    rlr_sched,      \* the calls lr_sch.step(v, epoch) made so far
    rlr_stepped,    \* the calls lr_sch.step(v, epoch) made by the last call
    \* --- ModelSaverCallback.restore_models / restore_model
    rs_dir,         \* from_dir: class name -> content of <class name>.pth, or NoFile
    rs_passed,      \* the models as they were passed
    rs_models,      \* the models now
    rs_lib,         \* "none", or the module whose restore was called
    rs_result,      \* "none" | "returned" | "AssertionError" | "OSError"
    \* --- an AverageMeter
    am,             \* the meter: val, sum, count and avg_loss_mom
    am_fed,         \* the values passed to update since it was created or reset
    am_op,          \* "new" | "update" | "reset": the last operation on it
    \* --- a ClassifierCore
    cc,             \* the core: logs, avg_meter, and its model and optimizer
    cc_prev,        \* the core as it was before the last call
    cc_last,        \* the last call: method, step and the loss of the batch
    cc_calls,       \* number of calls so far
    cc_fed,         \* the losses of the batches since the core was new or reset
    \* --- a ModelSaverCallback, the models it saves and its directory
    ms_lib,         \* "torchlite" | "torchlight": the module the class is from
    ms_epochs,      \* the epochs given to the constructor
    ms_every,       \* the every_n_epoch given to the constructor
    ms_dir,         \* to_dir: file name -> content, or NoFile
    ms_models,      \* the models of the core, as they are now
    ms_epoch,       \* the epoch the training is in
    ms_last,        \* the last operation: a hook with its epoch and step, or
                    \* "train_step", or "restore_models"
    ms_before,      \* to_dir as it was before the last operation
    ms_saved,       \* the models as they were at the last save, if there was one
    ms_result,      \* "none" | "returned" | "AssertionError": the last restore
    \* --- a TreeEncoder (BaseEncoder.fit / transform)
    enc_numeric_vars,       \* the numeric_vars given to the constructor
    enc_categorical_vars,   \* the categorical_vars given to the constructor
    enc_fix_missing,        \* the fix_missing given to the constructor
    enc_scaler,             \* whether a numeric_scaler was given
    enc_tfs,                \* tfs_list
    enc_op,                 \* "new" | "fit" | "transform" | "check": the last call
    enc_X,                  \* the DataFrame passed to the last call
    enc_result,             \* how the last call ended, and what it returned
    \* --- a TQDM callback notified by a training run
    tq,             \* the callback: its two bars and the lengths it has read
    tq_args,        \* the run: epochs, batches per loop, and the logs it passes
    tq_pc,          \* the notification the run sends next
    tq_epoch,       \* the epoch of the run
    tq_batch,       \* the batch of the run
    tq_step,        \* "training" or "validation"
    tq_used,        \* the bar operations made on a bar that was not open
    tq_ended,       \* number of training batches ended in the current epoch
    tq_err          \* "none" or the error a hook of the callback raised

learnerVars == <<callbacks, num_epochs, train_len, val_len, pc, epoch, batch,
                 step, trace, run, prevTrace, failure>>

cblVars == <<cbl, cbl_given, cbl_appended, cbl_calls, cbl_last, cbl_after>>

srVars == <<sr_pc, sr_sub, sr_ops, sr_calls, sr_training, sr_params, sr_grad,
            sr_loc, sr_err>>

rlrVars == <<rlr_lib, rlr_loss_step, rlr_epoch, rlr_logs, rlr_result, rlr_sched,
             rlr_stepped>>

rsVars == <<rs_dir, rs_passed, rs_models, rs_lib, rs_result>>

amVars == <<am, am_fed, am_op>>

ccVars == <<cc, cc_prev, cc_last, cc_calls, cc_fed>>

msVars == <<ms_lib, ms_epochs, ms_every, ms_dir, ms_models, ms_epoch, ms_last,
            ms_before, ms_saved, ms_result>>

encVars == <<enc_numeric_vars, enc_categorical_vars, enc_fix_missing, enc_scaler,
             enc_tfs, enc_op, enc_X, enc_result>>

tqVars == <<tq, tq_args, tq_pc, tq_epoch, tq_batch, tq_step, tq_used, tq_ended, tq_err>>

vars == <<learnerVars, cblVars, srVars, rlrVars, rsVars, amVars, ccVars, msVars, encVars, tqVars>>

\* ------------------------------------------------------------ python values
\* A dict is a set of <<key, value>> pairs with distinct keys.
EmptyDict == {}

\* An optional dict argument: None, or a dict.
NoneLogs == [none |-> TRUE, d |-> EmptyDict]
Logs(d) == [none |-> FALSE, d |-> d]

\* `logs or {}`: None and the empty dict are both falsy.
LogsOrEmpty(logs) == IF logs.none \/ logs.d = EmptyDict THEN EmptyDict ELSE logs.d

HasKey(d, k) == \E kv \in d : kv[1] = k

Get(d, k) == (CHOOSE kv \in d : kv[1] = k)[2]

\* d.get(k, default)
GetOr(d, k, default) == IF HasKey(d, k) THEN Get(d, k) ELSE default

\* d.update(w)
Update(d, w) == {kv \in d : ~HasKey(w, kv[1])} \cup w

\* The receiver id of the core in the trace; callbacks are 1..MaxCallbacks.
Core == 0
CallbackIds == 1..MaxCallbacks

\* An object that is not a TrainCallback.
NotACallback == 0 - 2

\* val_source is None
NoSource == 0 - 1

\* One received call: receiver, method, its index argument (epoch or batch;
\* 0 for the hooks that have none) and the logs dict it was handed.
Call(rcv, hook, arg, d) == [rcv |-> rcv, hook |-> hook, arg |-> arg, logs |-> d]

\* ------------------------------------------------------ TrainCallbackList
\* What the hooks of a callback object do, as overridden by the user. Every
\* callback leaves its mark in the logs it is handed: its id under "note",
\* and its id appended to the tuple under "visited". The callbacks with an
\* even id return "stop" from every hook, the others return None.
CallbackReturns(c) == IF c % 2 = 0 THEN "stop" ELSE "None"

CallbackWrites(c, d) ==
    {<<"note", c>>, <<"visited", Append(GetOr(d, "visited", <<>>), c)>>}

\* No callback raises in this notification.
NoRaise == 0 - 3

\* The outcome of a notification: the calls made, whether an exception left
\* the hook, and the content of the logs dict afterwards.
Outcome(calls, raised, d) == [calls |-> calls, raised |-> raised, logs |-> d]

\* the loop leaves at the first callback that returns a truthy value
RECURSIVE ForEach_breakOnReturn(_, _, _, _, _)
ForEach_breakOnReturn(cbs, hook, arg, d, r) ==
    IF cbs = <<>> THEN Outcome(<<>>, FALSE, d)
    ELSE LET c == Head(cbs)
             call == Call(c, hook, arg, d)
             after == Update(d, CallbackWrites(c, d))
         IN IF c = r THEN Outcome(<<call>>, TRUE, d)
            ELSE IF CallbackReturns(c) = "stop" THEN Outcome(<<call>>, FALSE, after)
            ELSE LET rest == ForEach_breakOnReturn(Tail(cbs), hook, arg, after, r)
                 IN Outcome(<<call>> \o rest.calls, rest.raised, rest.logs)

\* the call wrapped in `try: ... except Exception: pass`
RECURSIVE ForEach_swallows(_, _, _, _, _)
ForEach_swallows(cbs, hook, arg, d, r) ==
    IF cbs = <<>> THEN Outcome(<<>>, FALSE, d)
    ELSE LET c == Head(cbs)
             call == Call(c, hook, arg, d)
             after == IF c = r THEN d ELSE Update(d, CallbackWrites(c, d))
             rest == ForEach_swallows(Tail(cbs), hook, arg, after, r)
         IN Outcome(<<call>> \o rest.calls, FALSE, rest.logs)

\* every callback handed its own copy, `dict(logs)`
RECURSIVE ForEach_copies(_, _, _, _, _)
ForEach_copies(cbs, hook, arg, d, r) ==
    IF cbs = <<>> THEN Outcome(<<>>, FALSE, d)
    ELSE LET c == Head(cbs)
             call == Call(c, hook, arg, d)
         IN IF c = r THEN Outcome(<<call>>, TRUE, d)
            ELSE LET rest == ForEach_copies(Tail(cbs), hook, arg, d, r)
                 IN Outcome(<<call>> \o rest.calls, rest.raised, rest.logs)

\* The loop `for callback in self.callbacks: callback.<hook>(arg, logs)`:
\* every callback is handed the same dict object, so it sees what the
\* callbacks before it wrote; what a callback returns is dropped; when
\* callback r raises, the exception leaves the loop and the hook. (written is
\* the dict after the writes of the callback, rest the outcome of the rest of
\* the loop; each is bound once.)
RECURSIVE ForEach(_, _, _, _, _)
ForEach(cbs, hook, arg, d, r) ==
    IF cbs = <<>> THEN Outcome(<<>>, FALSE, d)
    ELSE LET c == Head(cbs)
             call == Call(c, hook, arg, d)
         IN IF c = r THEN Outcome(<<call>>, TRUE, d)
            ELSE CHOOSE o \in
                    {Outcome(<<call>> \o rest.calls, rest.raised, rest.logs) :
                        rest \in {ForEach(Tail(cbs), hook, arg, written, r) :
                                    written \in {Update(d, CallbackWrites(c, d))}}} : TRUE

\* An optional list argument: None, or a list.
NoneList == [none |-> TRUE, l |-> <<>>]
List(l) == [none |-> FALSE, l |-> l]

\* TrainCallbackList.__init__: `callbacks or []`, copied.
CBL_init(given) == IF given.none \/ given.l = <<>> THEN <<>> ELSE given.l

\* isinstance(callback, TrainCallback)
IsTrainCallback(o) == o \in CallbackIds

\* append written as an insertion at the head of the list
CBL_append_atHead(cbs, c) == IF IsTrainCallback(c) THEN <<c>> \o cbs ELSE cbs

\* TrainCallbackList.append: the assertion fails for an object that is no
\* TrainCallback, and nothing is appended.
CBL_append(cbs, c) == IF IsTrainCallback(c) THEN Append(cbs, c) ELSE cbs

CBL_on_epoch_begin(cbs, e, logs, r) == ForEach(cbs, "on_epoch_begin", e, LogsOrEmpty(logs), r)

\* on_epoch_end written as a copy of on_epoch_begin, the callee not renamed
CBL_on_epoch_end_callsBegin(cbs, e, logs, r) ==
    ForEach(cbs, "on_epoch_begin", e, LogsOrEmpty(logs), r)

CBL_on_epoch_end(cbs, e, logs, r) == ForEach(cbs, "on_epoch_end", e, LogsOrEmpty(logs), r)

CBL_on_batch_begin(cbs, b, logs, r) == ForEach(cbs, "on_batch_begin", b, LogsOrEmpty(logs), r)

\* on_batch_end written as a copy of on_batch_begin, the callee not renamed
CBL_on_batch_end_callsBegin(cbs, b, logs, r) ==
    ForEach(cbs, "on_batch_begin", b, LogsOrEmpty(logs), r)

CBL_on_batch_end(cbs, b, logs, r) == ForEach(cbs, "on_batch_end", b, LogsOrEmpty(logs), r)

CBL_on_train_begin(cbs, logs, r) == ForEach(cbs, "on_train_begin", 0, LogsOrEmpty(logs), r)

\* on_train_end without its loop over the callbacks
CBL_on_train_end_silent(cbs, logs, r) == Outcome(<<>>, FALSE, LogsOrEmpty(logs))

\* on_train_end written as a copy of on_train_begin, the callee not renamed
CBL_on_train_end_callsBegin(cbs, logs, r) ==
    ForEach(cbs, "on_train_begin", 0, LogsOrEmpty(logs), r)

CBL_on_train_end(cbs, logs, r) == ForEach(cbs, "on_train_end", 0, LogsOrEmpty(logs), r)

\* ------------------------------------------------------------ BaseCore
\* A core that only records the call (`on_forward_batch(step, inputs, targets)`).
Core_on_forward_batch(s, b) == <<Call(Core, "on_forward_batch", b, {<<"step", s>>})>>

\* ------------------------------------------------------------ Learner.train
\* Sequences of distinct callback objects of length 0..MaxCallbacks.
RECURSIVE DistinctSeqs(_, _)
DistinctSeqs(S, n) ==
    IF n = 0 THEN {<<>>}
    ELSE LET shorter == DistinctSeqs(S, n - 1)
         IN shorter \cup
            {Append(s, x) : <<s, x>> \in
                {p \in shorter \X S : \A i \in 1..Len(p[1]) : p[1][i] # p[2]}}

StepLogs(s) == Logs({<<"step", s>>})

\* `for epoch in 1..N`: every call of train counts its epochs from 1.
FirstEpochContinued(e) == e + 1

FirstEpoch(e) == 1

\* `if val_source is present`
HasValidationAlways == TRUE

HasValidation == val_len # NoSource

TrainBeginLogs ==
    Logs({<<"total_epochs", num_epochs>>, <<"train_loader", train_len>>,
          <<"val_loader", val_len>>})

\* The number of batches of the loop of the current step.
LoopLen == IF step = "training" THEN train_len ELSE val_len

\* The notification in which a callback raised: the callback, the hook, its
\* index argument and step, and the length of the trace when it raised.
NoFailure == [by |-> NoRaise, hook |-> "none", arg |-> 0, step |-> "none", at |-> 0]

\* The arguments of train: any number of epochs and of training batches from
\* 0 up, a list of distinct callbacks, and a validation source that is None
\* or has at least one batch.
LearnerInit ==
    /\ callbacks \in {CBL_init(List(cbs)) : cbs \in DistinctSeqs(CallbackIds, MaxCallbacks)}
    /\ num_epochs \in 0..MaxEpochs
    /\ train_len \in 0..MaxBatches
    /\ val_len \in {NoSource} \cup 1..MaxBatches
    /\ pc = "train_begin"
    /\ epoch = 0
    /\ batch = 0
    /\ step = "training"
    /\ trace = <<>>
    /\ run = 1
    /\ prevTrace = <<>>
    /\ failure = NoFailure

Registered == {callbacks[i] : i \in 1..Len(callbacks)}

\* Which callback raises in a notification: none, or a registered one.
Raisers == {NoRaise} \cup Registered

Failure(r, hook, arg, s, at) == [by |-> r, hook |-> hook, arg |-> arg, step |-> s, at |-> at]

\* An exception that leaves a hook leaves train: nothing catches it.
Propagate ==
    /\ pc' = "failed"
    /\ UNCHANGED <<epoch, batch, step>>

\* callback_list.on_train_begin(...), then the first iteration of the epoch loop
TrainBegin ==
    \E r \in Raisers :
        LET n == CBL_on_train_begin(callbacks, TrainBeginLogs, r)
        IN /\ pc = "train_begin"
           /\ trace' = trace \o n.calls
           /\ failure' = IF r = NoRaise THEN failure
                         ELSE Failure(r, "on_train_begin", 0, "none", Len(trace'))
           /\ IF n.raised THEN Propagate
              ELSE /\ IF num_epochs >= 1
                      THEN /\ epoch' = FirstEpoch(epoch)
                           /\ pc' = "epoch_begin"
                      ELSE /\ epoch' = epoch
                           /\ pc' = "train_end"
                   /\ step' = "training"
                   /\ batch' = 0
           /\ UNCHANGED <<callbacks, num_epochs, train_len, val_len, run, prevTrace>>
           /\ UNCHANGED <<cblVars, srVars, rlrVars, rsVars, amVars, ccVars, msVars, encVars, tqVars>>

\* callback_list.on_epoch_begin(epoch, {"step": step}), then the batch loop
EpochBegin ==
    \E r \in Raisers :
        LET n == CBL_on_epoch_begin(callbacks, epoch, StepLogs(step), r)
        IN /\ pc = "epoch_begin"
           /\ trace' = trace \o n.calls
           /\ failure' = IF r = NoRaise THEN failure
                         ELSE Failure(r, "on_epoch_begin", epoch, step, Len(trace'))
           /\ IF n.raised THEN Propagate
              ELSE /\ batch' = 0
                   /\ pc' = IF LoopLen > 0 THEN "batch_begin" ELSE "epoch_end"
                   /\ UNCHANGED <<epoch, step>>
           /\ UNCHANGED <<callbacks, num_epochs, train_len, val_len, run, prevTrace>>
           /\ UNCHANGED <<cblVars, srVars, rlrVars, rsVars, amVars, ccVars, msVars, encVars, tqVars>>

BatchBegin ==
    \E r \in Raisers :
        LET n == CBL_on_batch_begin(callbacks, batch, StepLogs(step), r)
        IN /\ pc = "batch_begin"
           /\ trace' = trace \o n.calls
           /\ failure' = IF r = NoRaise THEN failure
                         ELSE Failure(r, "on_batch_begin", batch, step, Len(trace'))
           /\ IF n.raised THEN Propagate
              ELSE /\ pc' = "forward"
                   /\ UNCHANGED <<epoch, batch, step>>
           /\ UNCHANGED <<callbacks, num_epochs, train_len, val_len, run, prevTrace>>
           /\ UNCHANGED <<cblVars, srVars, rlrVars, rsVars, amVars, ccVars, msVars, encVars, tqVars>>

\* core.on_forward_batch(step, inputs, targets)
ForwardBatch ==
    /\ pc = "forward"
    /\ trace' = trace \o Core_on_forward_batch(step, batch)
    /\ pc' = "batch_end"
    /\ UNCHANGED <<callbacks, num_epochs, train_len, val_len, epoch, batch, step, run,
                   prevTrace, failure>>
    /\ UNCHANGED <<cblVars, srVars, rlrVars, rsVars, amVars, ccVars, msVars, encVars, tqVars>>

BatchEnd ==
    \E r \in Raisers :
        LET n == CBL_on_batch_end(callbacks, batch, StepLogs(step), r)
        IN /\ pc = "batch_end"
           /\ trace' = trace \o n.calls
           /\ failure' = IF r = NoRaise THEN failure
                         ELSE Failure(r, "on_batch_end", batch, step, Len(trace'))
           /\ IF n.raised THEN Propagate
              ELSE /\ IF batch + 1 < LoopLen
                      THEN /\ batch' = batch + 1
                           /\ pc' = "batch_begin"
                      ELSE /\ batch' = batch
                           /\ pc' = "epoch_end"
                   /\ UNCHANGED <<epoch, step>>
           /\ UNCHANGED <<callbacks, num_epochs, train_len, val_len, run, prevTrace>>
           /\ UNCHANGED <<cblVars, srVars, rlrVars, rsVars, amVars, ccVars, msVars, encVars, tqVars>>

\* callback_list.on_epoch_end(epoch, {"step": step}); after the training loop
\* the validation loop when val_source is given, else the next epoch
EpochEnd ==
    \E r \in Raisers :
        LET n == CBL_on_epoch_end(callbacks, epoch, StepLogs(step), r)
        IN /\ pc = "epoch_end"
           /\ trace' = trace \o n.calls
           /\ failure' = IF r = NoRaise THEN failure
                         ELSE Failure(r, "on_epoch_end", epoch, step, Len(trace'))
           /\ IF n.raised THEN Propagate
              ELSE /\ IF step = "training" /\ HasValidation
                      THEN /\ step' = "validation"
                           /\ epoch' = epoch
                           /\ pc' = "epoch_begin"
                      ELSE /\ step' = "training"
                           /\ IF epoch < num_epochs
                              THEN /\ epoch' = epoch + 1
                                   /\ pc' = "epoch_begin"
                              ELSE /\ epoch' = epoch
                                   /\ pc' = "train_end"
                   /\ batch' = 0
           /\ UNCHANGED <<callbacks, num_epochs, train_len, val_len, run, prevTrace>>
           /\ UNCHANGED <<cblVars, srVars, rlrVars, rsVars, amVars, ccVars, msVars, encVars, tqVars>>

TrainEnd ==
    \E r \in Raisers :
        LET n == CBL_on_train_end(callbacks, NoneLogs, r)
        IN /\ pc = "train_end"
           /\ trace' = trace \o n.calls
           /\ failure' = IF r = NoRaise THEN failure
                         ELSE Failure(r, "on_train_end", 0, "none", Len(trace'))
           /\ IF n.raised THEN Propagate
              ELSE /\ pc' = "done"
                   /\ UNCHANGED <<epoch, batch, step>>
           /\ UNCHANGED <<callbacks, num_epochs, train_len, val_len, run, prevTrace>>
           /\ UNCHANGED <<cblVars, srVars, rlrVars, rsVars, amVars, ccVars, msVars, encVars, tqVars>>

\* A second call of train with the same arguments on the same objects.
TrainAgain ==
    /\ pc = "done"
    /\ run = 1
    /\ run' = 2
    /\ prevTrace' = trace
    /\ trace' = <<>>
    /\ pc' = "train_begin"
    /\ UNCHANGED <<callbacks, num_epochs, train_len, val_len, epoch, batch, step, failure>>
    /\ UNCHANGED <<cblVars, srVars, rlrVars, rsVars, amVars, ccVars, msVars, encVars, tqVars>>

LearnerNext ==
    \/ TrainBegin
    \/ EpochBegin
    \/ BatchBegin
    \/ ForwardBatch
    \/ BatchEnd
    \/ EpochEnd
    \/ TrainEnd
    \/ TrainAgain

LearnerIdle ==
    /\ callbacks = <<>>
    /\ num_epochs = 0
    /\ train_len = 0
    /\ val_len = NoSource
    /\ pc = "idle"
    /\ epoch = 0
    /\ batch = 0
    /\ step = "training"
    /\ trace = <<>>
    /\ run = 1
    /\ prevTrace = <<>>
    /\ failure = NoFailure

\* ------------------------------------------- TrainCallbackList on its own
\* All sequences over S of length 0..n.
RECURSIVE Seqs(_, _)
Seqs(S, n) ==
    IF n = 0 THEN {<<>>}
    ELSE LET shorter == Seqs(S, n - 1)
         IN shorter \cup {Append(q, x) : <<q, x>> \in shorter \X S}

NoNotification == [hook |-> "none", arg |-> 0]

\* The logs arguments a caller passes to a hook.
HookLogs == {NoneLogs, Logs(EmptyDict), StepLogs("training")}

CblInit ==
    /\ cbl_given \in {NoneList} \cup {List(l) : l \in Seqs(CallbackIds, MaxCallbacks)}
    /\ cbl = CBL_init(cbl_given)
    /\ cbl_appended = <<>>
    /\ cbl_calls = <<>>
    /\ cbl_last = NoNotification
    /\ cbl_after = EmptyDict

CblIdle ==
    /\ cbl_given = NoneList
    /\ cbl = <<>>
    /\ cbl_appended = <<>>
    /\ cbl_calls = <<>>
    /\ cbl_last = NoNotification
    /\ cbl_after = EmptyDict

CblAppend ==
    \E c \in CallbackIds \cup {NotACallback} :
        /\ Len(cbl_appended) < MaxAppends
        /\ cbl' = CBL_append(cbl, c)
        /\ cbl_appended' = IF c \in CallbackIds THEN Append(cbl_appended, c)
                           ELSE cbl_appended
        /\ cbl_calls' = <<>>
        /\ cbl_last' = NoNotification
        /\ cbl_after' = EmptyDict
        /\ UNCHANGED cbl_given
        /\ UNCHANGED <<learnerVars, srVars, rlrVars, rsVars, amVars, ccVars, msVars, encVars, tqVars>>

\* The hooks leave the list as it is, so a notification after another one
\* would start from the same list: one notification is recorded per list.
CblEpochBegin ==
    \E e \in 1..MaxEpochs, logs \in HookLogs :
        /\ cbl_last = NoNotification
        /\ LET n == CBL_on_epoch_begin(cbl, e, logs, NoRaise)
           IN /\ cbl_calls' = n.calls
              /\ cbl_after' = n.logs
        /\ cbl_last' = [hook |-> "on_epoch_begin", arg |-> e]
        /\ UNCHANGED <<cbl, cbl_given, cbl_appended>>
        /\ UNCHANGED <<learnerVars, srVars, rlrVars, rsVars, amVars, ccVars, msVars, encVars, tqVars>>

CblEpochEnd ==
    \E e \in 1..MaxEpochs, logs \in HookLogs :
        /\ cbl_last = NoNotification
        /\ LET n == CBL_on_epoch_end(cbl, e, logs, NoRaise)
           IN /\ cbl_calls' = n.calls
              /\ cbl_after' = n.logs
        /\ cbl_last' = [hook |-> "on_epoch_end", arg |-> e]
        /\ UNCHANGED <<cbl, cbl_given, cbl_appended>>
        /\ UNCHANGED <<learnerVars, srVars, rlrVars, rsVars, amVars, ccVars, msVars, encVars, tqVars>>

CblBatchBegin ==
    \E b \in 0..(MaxBatches - 1), logs \in HookLogs :
        /\ cbl_last = NoNotification
        /\ LET n == CBL_on_batch_begin(cbl, b, logs, NoRaise)
           IN /\ cbl_calls' = n.calls
              /\ cbl_after' = n.logs
        /\ cbl_last' = [hook |-> "on_batch_begin", arg |-> b]
        /\ UNCHANGED <<cbl, cbl_given, cbl_appended>>
        /\ UNCHANGED <<learnerVars, srVars, rlrVars, rsVars, amVars, ccVars, msVars, encVars, tqVars>>

CblBatchEnd ==
    \E b \in 0..(MaxBatches - 1), logs \in HookLogs :
        /\ cbl_last = NoNotification
        /\ LET n == CBL_on_batch_end(cbl, b, logs, NoRaise)
           IN /\ cbl_calls' = n.calls
              /\ cbl_after' = n.logs
        /\ cbl_last' = [hook |-> "on_batch_end", arg |-> b]
        /\ UNCHANGED <<cbl, cbl_given, cbl_appended>>
        /\ UNCHANGED <<learnerVars, srVars, rlrVars, rsVars, amVars, ccVars, msVars, encVars, tqVars>>

CblTrainBegin ==
    \E logs \in HookLogs :
        /\ cbl_last = NoNotification
        /\ LET n == CBL_on_train_begin(cbl, logs, NoRaise)
           IN /\ cbl_calls' = n.calls
              /\ cbl_after' = n.logs
        /\ cbl_last' = [hook |-> "on_train_begin", arg |-> 0]
        /\ UNCHANGED <<cbl, cbl_given, cbl_appended>>
        /\ UNCHANGED <<learnerVars, srVars, rlrVars, rsVars, amVars, ccVars, msVars, encVars, tqVars>>

CblTrainEnd ==
    \E logs \in HookLogs :
        /\ cbl_last = NoNotification
        /\ LET n == CBL_on_train_end(cbl, logs, NoRaise)
           IN /\ cbl_calls' = n.calls
              /\ cbl_after' = n.logs
        /\ cbl_last' = [hook |-> "on_train_end", arg |-> 0]
        /\ UNCHANGED <<cbl, cbl_given, cbl_appended>>
        /\ UNCHANGED <<learnerVars, srVars, rlrVars, rsVars, amVars, ccVars, msVars, encVars, tqVars>>

CblNext ==
    \/ CblAppend
    \/ CblEpochBegin
    \/ CblEpochEnd
    \/ CblBatchBegin
    \/ CblBatchEnd
    \/ CblTrainBegin
    \/ CblTrainEnd

\* ------------------------------------------------------------ SRGAN.forward
Unset == 0 - 1

\* optimize_G placed before optimize_D
SRGAN_forward_generatorFirst ==
    <<"gen_img", "d_real_out", "d_fake_out", "d_loss", "g_loss", "optimize_G",
      "optimize_D", "return">>

\* The statements of forward, in program order.
SRGAN_forward ==
    <<"gen_img", "d_real_out", "d_fake_out", "d_loss", "optimize_D", "g_loss",
      "optimize_G", "return">>

\* retain_graph=True left out of the discriminator's call
OptimizeArgs_noRetain(stmt) ==
    IF stmt = "optimize_D"
    THEN [on |-> "D", loss |-> "d_loss", retain |-> FALSE]
    ELSE [on |-> "G", loss |-> "g_loss", retain |-> FALSE]

\* The arguments of the two calls of _optimize.
OptimizeArgs(stmt) ==
    IF stmt = "optimize_D"
    THEN [on |-> "D", loss |-> "d_loss", retain |-> TRUE]
    ELSE [on |-> "G", loss |-> "g_loss", retain |-> FALSE]

IsOptimize(stmt) == stmt \in {"optimize_D", "optimize_G"}

Stmt == IF sr_pc \in 1..Len(SRGAN_forward) THEN SRGAN_forward[sr_pc] ELSE "none"

\* The position in _optimize when control reaches statement i.
SubAt(i) ==
    IF i \in 1..Len(SRGAN_forward) /\ IsOptimize(SRGAN_forward[i])
    THEN "zero_grad" ELSE "none"

Op(op, on, retain) == [op |-> op, on |-> on, retain |-> retain]

\* Discriminator scores (means of sigmoid outputs), abstracted to 0 and 1.
Scores == {0, 1}

NoLocals ==
    [gen_ver |-> Unset, d_real |-> Unset, d_fake |-> Unset, d_fake_ver |-> Unset,
     d_loss |-> Unset, g_loss_ver |-> Unset, graph |-> "none"]

SrIdle ==
    /\ sr_pc = 0
    /\ sr_sub = "none"
    /\ sr_ops = <<>>
    /\ sr_calls = 0
    /\ sr_training = TRUE
    /\ sr_params = [D |-> 0, G |-> 0]
    /\ sr_grad = [D |-> {}, G |-> {}]
    /\ sr_loc = NoLocals
    /\ sr_err = "none"

SrInit == SrIdle

\* forward(data, target) is called, the module in training or in eval mode
SrCall ==
    \E training \in BOOLEAN :
        /\ sr_pc = 0
        /\ sr_err = "none"
        /\ sr_calls < MaxForward
        /\ sr_calls' = sr_calls + 1
        /\ sr_training' = training
        /\ sr_pc' = 1
        /\ sr_sub' = SubAt(1)
        /\ sr_ops' = <<>>
        /\ sr_loc' = NoLocals
        /\ UNCHANGED <<sr_params, sr_grad, sr_err>>
        /\ UNCHANGED <<learnerVars, cblVars, rlrVars, rsVars, amVars, ccVars, msVars, encVars, tqVars>>

\* gen_img = self.netG(data)
SrGenImg ==
    /\ Stmt = "gen_img"
    /\ sr_loc' = [sr_loc EXCEPT !.gen_ver = sr_params.G, !.graph = "built"]
    /\ sr_pc' = sr_pc + 1
    /\ sr_sub' = SubAt(sr_pc + 1)
    /\ UNCHANGED <<sr_ops, sr_calls, sr_training, sr_params, sr_grad, sr_err>>
    /\ UNCHANGED <<learnerVars, cblVars, rlrVars, rsVars, amVars, ccVars, msVars, encVars, tqVars>>

\* d_real_out = self.netD(target).mean()
SrDRealOut ==
    \E v \in Scores :
        /\ Stmt = "d_real_out"
        /\ sr_loc' = [sr_loc EXCEPT !.d_real = v]
        /\ sr_pc' = sr_pc + 1
        /\ sr_sub' = SubAt(sr_pc + 1)
        /\ UNCHANGED <<sr_ops, sr_calls, sr_training, sr_params, sr_grad, sr_err>>
        /\ UNCHANGED <<learnerVars, cblVars, rlrVars, rsVars, amVars, ccVars, msVars, encVars, tqVars>>

\* d_fake_out = self.netD(gen_img).mean()
SrDFakeOut ==
    \E v \in Scores :
        /\ Stmt = "d_fake_out"
        /\ sr_loc' = [sr_loc EXCEPT !.d_fake = v, !.d_fake_ver = sr_params.D]
        /\ sr_pc' = sr_pc + 1
        /\ sr_sub' = SubAt(sr_pc + 1)
        /\ UNCHANGED <<sr_ops, sr_calls, sr_training, sr_params, sr_grad, sr_err>>
        /\ UNCHANGED <<learnerVars, cblVars, rlrVars, rsVars, amVars, ccVars, msVars, encVars, tqVars>>

\* d_loss = 1 - d_real_out + d_fake_out
SrDLoss ==
    /\ Stmt = "d_loss"
    /\ sr_loc' = [sr_loc EXCEPT !.d_loss = 1 - sr_loc.d_real + sr_loc.d_fake]
    /\ sr_pc' = sr_pc + 1
    /\ sr_sub' = SubAt(sr_pc + 1)
    /\ UNCHANGED <<sr_ops, sr_calls, sr_training, sr_params, sr_grad, sr_err>>
    /\ UNCHANGED <<learnerVars, cblVars, rlrVars, rsVars, amVars, ccVars, msVars, encVars, tqVars>>

\* g_loss = self.generator_loss(d_fake_out, gen_img, target)
SrGLoss ==
    /\ Stmt = "g_loss"
    /\ sr_loc' = [sr_loc EXCEPT !.g_loss_ver = sr_loc.d_fake_ver]
    /\ sr_pc' = sr_pc + 1
    /\ sr_sub' = SubAt(sr_pc + 1)
    /\ UNCHANGED <<sr_ops, sr_calls, sr_training, sr_params, sr_grad, sr_err>>
    /\ UNCHANGED <<learnerVars, cblVars, rlrVars, rsVars, amVars, ccVars, msVars, encVars, tqVars>>

\* _optimize: model.zero_grad()
SrZeroGrad ==
    /\ IsOptimize(Stmt)
    /\ sr_sub = "zero_grad"
    /\ LET a == OptimizeArgs(Stmt)
       IN /\ sr_grad' = [sr_grad EXCEPT ![a.on] = {}]
          /\ sr_ops' = Append(sr_ops, Op("zero_grad", a.on, FALSE))
    /\ sr_sub' = "backward"
    /\ UNCHANGED <<sr_pc, sr_calls, sr_training, sr_params, sr_loc, sr_err>>
    /\ UNCHANGED <<learnerVars, cblVars, rlrVars, rsVars, amVars, ccVars, msVars, encVars, tqVars>>

\* _optimize: loss.backward(retain_graph=retain_graph). Both losses depend on
\* the parameters of netD and of netG (gen_img is not detached); a backward
\* pass through a graph already freed raises.
SrBackward ==
    /\ IsOptimize(Stmt)
    /\ sr_sub = "backward"
    /\ LET a == OptimizeArgs(Stmt)
       IN IF sr_loc.graph = "built"
          THEN /\ sr_grad' = [D |-> sr_grad.D \cup {a.loss}, G |-> sr_grad.G \cup {a.loss}]
               /\ sr_ops' = Append(sr_ops, Op("backward", a.on, a.retain))
               /\ sr_loc' = [sr_loc EXCEPT !.graph = IF a.retain THEN "built" ELSE "freed"]
               /\ sr_sub' = "step"
               /\ UNCHANGED <<sr_pc, sr_err>>
          ELSE /\ sr_err' = "RuntimeError"
               /\ sr_pc' = 0
               /\ sr_sub' = "none"
               /\ UNCHANGED <<sr_grad, sr_ops, sr_loc>>
    /\ UNCHANGED <<sr_calls, sr_training, sr_params>>
    /\ UNCHANGED <<learnerVars, cblVars, rlrVars, rsVars, amVars, ccVars, msVars, encVars, tqVars>>

\* _optimize: optim.step()
SrOptimStep ==
    /\ IsOptimize(Stmt)
    /\ sr_sub = "step"
    /\ LET a == OptimizeArgs(Stmt)
       IN /\ sr_params' = [sr_params EXCEPT ![a.on] = @ + 1]
          /\ sr_ops' = Append(sr_ops, Op("step", a.on, FALSE))
    /\ sr_pc' = sr_pc + 1
    /\ sr_sub' = SubAt(sr_pc + 1)
    /\ UNCHANGED <<sr_calls, sr_training, sr_grad, sr_loc, sr_err>>
    /\ UNCHANGED <<learnerVars, cblVars, rlrVars, rsVars, amVars, ccVars, msVars, encVars, tqVars>>

\* return gen_img, d_real_out, d_fake_out
SrReturn ==
    /\ Stmt = "return"
    /\ sr_pc' = 0
    /\ sr_sub' = "none"
    /\ UNCHANGED <<sr_ops, sr_calls, sr_training, sr_params, sr_grad, sr_loc, sr_err>>
    /\ UNCHANGED <<learnerVars, cblVars, rlrVars, rsVars, amVars, ccVars, msVars, encVars, tqVars>>

SrNext ==
    \/ SrCall
    \/ SrGenImg
    \/ SrDRealOut
    \/ SrDFakeOut
    \/ SrDLoss
    \/ SrGLoss
    \/ SrZeroGrad
    \/ SrBackward
    \/ SrOptimStep
    \/ SrReturn

\* ------------------------------------------- ReduceLROnPlateau.on_epoch_end
\* The values of a loss entry of the logs; 0 stands for the falsy ones.
LossValues == 0..MaxLoss

\* `not v`
Falsy(v) == v = 0

\* The epoch_logs a ClassifierCore reports for a step (on_forward_batch).
CoreEpochLogs(s, v) ==
    {<<"epoch_logs", {<<IF s = "training" THEN "train loss" ELSE "valid loss", v>>}>>}

\* The logs of an on_epoch_end: the step, the loss entries that are there,
\* and the epoch_logs of the core when the caller passes them on.
EpochEndLogs ==
    UNION {{{<<"step", s>>} \cup vl \cup tl \cup el :
                vl \in {{}} \cup {{<<"val_loss", v>>} : v \in LossValues},
                tl \in {{}} \cup {{<<"train_loss", v>>} : v \in LossValues},
                el \in {{}} \cup {CoreEpochLogs(s, v) : v \in LossValues}} :
            s \in {"training", "validation"}}

Returned(steps) == [result |-> "returned", steps |-> steps]

Raised(err) == [result |-> err, steps |-> <<>>]

\* The loop over logs.items(): the keys are distinct, so at most one item is
\* the loss looked for, and the other items do nothing.
Lite_RLR_on_epoch_end(loss_step, e, d) ==
    IF Get(d, "step") = "training"
    THEN IF loss_step = "valid"
         THEN IF HasKey(d, "val_loss")
              THEN IF Falsy(Get(d, "val_loss"))
                   THEN Raised("ValueError")
                   ELSE Returned(<<<<Get(d, "val_loss"), e>>>>)
              ELSE Returned(<<>>)
         ELSE IF HasKey(d, "train_loss")
              THEN Returned(<<<<Get(d, "train_loss"), e>>>>)
              ELSE Returned(<<>>)
    ELSE Returned(<<>>)

\* The same method in torchlight.
Light_RLR_on_epoch_end(loss_step, e, d) ==
    IF Get(d, "step") = "training"
    THEN IF loss_step = "valid"
         THEN IF HasKey(d, "val_loss")
              THEN IF Falsy(Get(d, "val_loss"))
                   THEN Raised("ValueError")
                   ELSE Returned(<<<<Get(d, "val_loss"), e>>>>)
              ELSE Returned(<<>>)
         ELSE IF HasKey(d, "train_loss")
              THEN Returned(<<<<Get(d, "train_loss"), e>>>>)
              ELSE Returned(<<>>)
    ELSE Returned(<<>>)

RlrInit ==
    /\ rlr_lib \in {"torchlite", "torchlight"}
    /\ rlr_loss_step \in {"train", "valid"}
    /\ rlr_epoch = 0
    /\ rlr_logs = EmptyDict
    /\ rlr_result = "none"
    /\ rlr_sched = <<>>
    /\ rlr_stepped = <<>>

RlrIdle ==
    /\ rlr_lib = "torchlite"
    /\ rlr_loss_step = "train"
    /\ rlr_epoch = 0
    /\ rlr_logs = EmptyDict
    /\ rlr_result = "none"
    /\ rlr_sched = <<>>
    /\ rlr_stepped = <<>>

\* One call of on_epoch_end(epoch, logs); an error ends the run.
RlrEpochEnd ==
    \E d \in EpochEndLogs :
        /\ rlr_result # "ValueError"
        /\ rlr_epoch < MaxCalls
        /\ LET e == rlr_epoch + 1
               r == IF rlr_lib = "torchlite"
                    THEN Lite_RLR_on_epoch_end(rlr_loss_step, e, d)
                    ELSE Light_RLR_on_epoch_end(rlr_loss_step, e, d)
           IN /\ rlr_epoch' = e
              /\ rlr_logs' = d
              /\ rlr_result' = r.result
              /\ rlr_sched' = rlr_sched \o r.steps
              /\ rlr_stepped' = r.steps
        /\ UNCHANGED <<rlr_lib, rlr_loss_step>>
        /\ UNCHANGED <<learnerVars, cblVars, srVars, rsVars, amVars, ccVars, msVars, encVars, tqVars>>

RlrNext == RlrEpochEnd

\* ------------------------------------------------ ModelSaverCallback restore
ClassNames == {"Generator", "Discriminator"}

NoFile == 0 - 1

\* The contents a checkpoint file can have.
Blobs == {1, 2}

\* The state of a model that was never loaded.
FreshState == 0

Model(cls, state) == [cls |-> cls, state |-> state]

\* os.path.isfile(os.path.join(from_dir, model.__class__.__name__ + ".pth"))
IsFile(dir, m) == dir[m.cls] # NoFile

\* The models after the loop: each model that has its file is loaded from it.
LoadedFrom(dir, models) ==
    [k \in 1..Len(models) |->
        IF IsFile(dir, models[k]) THEN Model(models[k].cls, dir[models[k].cls])
        ELSE models[k]]

\* The value of i after the loop.
RestoredCount(dir, models) ==
    Cardinality({k \in 1..Len(models) : IsFile(dir, models[k])})

\* the assertion of torchlight's restore_model
Lite_AllRestored_offByOne(i, n) == i + 1 = n

\* `assert i == len(models)`
Lite_AllRestored(i, n) == i = n

\* torchlite: restore_models(models, from_dir, load_with_cpu)
Lite_restore_models(models, dir, load_with_cpu) ==
    [models |-> LoadedFrom(dir, models),
     result |-> IF Lite_AllRestored(RestoredCount(dir, models), Len(models))
                THEN "returned" ELSE "AssertionError"]

\* `assert i+1 == len(models)`
Light_AllRestored(i, n) == i + 1 = n

\* torchlight: restore_model(models, from_dir). For a model that has its file
\* it calls torch.load(from_dir), on the directory, which raises.
Light_restore_model(models, dir) ==
    IF \E k \in 1..Len(models) : IsFile(dir, models[k])
    THEN [models |-> models, result |-> "OSError"]
    ELSE [models |-> models,
          result |-> IF Light_AllRestored(0, Len(models))
                     THEN "returned" ELSE "AssertionError"]

RsInit ==
    /\ rs_dir \in [ClassNames -> {NoFile} \cup Blobs]
    /\ rs_passed \in Seqs({Model(c, FreshState) : c \in ClassNames}, MaxModels)
    /\ rs_models = rs_passed
    /\ rs_lib = "none"
    /\ rs_result = "none"

RsIdle ==
    /\ rs_dir = [c \in ClassNames |-> NoFile]
    /\ rs_passed = <<>>
    /\ rs_models = <<>>
    /\ rs_lib = "none"
    /\ rs_result = "none"

RsRestoreLite ==
    \E load_with_cpu \in BOOLEAN :
        /\ rs_lib = "none"
        /\ LET r == Lite_restore_models(rs_models, rs_dir, load_with_cpu)
           IN /\ rs_models' = r.models
              /\ rs_result' = r.result
        /\ rs_lib' = "torchlite"
        /\ UNCHANGED <<rs_dir, rs_passed>>
        /\ UNCHANGED <<learnerVars, cblVars, srVars, rlrVars, amVars, ccVars, msVars, encVars, tqVars>>

RsRestoreLight ==
    /\ rs_lib = "none"
    /\ LET r == Light_restore_model(rs_models, rs_dir)
       IN /\ rs_models' = r.models
          /\ rs_result' = r.result
    /\ rs_lib' = "torchlight"
    /\ UNCHANGED <<rs_dir, rs_passed>>
    /\ UNCHANGED <<learnerVars, cblVars, srVars, rlrVars, amVars, ccVars, msVars, encVars, tqVars>>

RsNext ==
    \/ RsRestoreLite
    \/ RsRestoreLight

\* ------------------------------------------------------------ AverageMeter
\* avg_mom = 0.98, as the fraction AvgMomNum / AvgMomDen
AvgMomNum == 49

AvgMomDen == 50

RECURSIVE Pow(_, _)
Pow(b, n) == IF n = 0 THEN 1 ELSE b * Pow(b, n - 1)

\* A fraction num / den, for the results of `/`.
Frac(num, den) == [num |-> num, den |-> den]

\* AverageMeter.__init__. The float avg_loss_mom is kept as the numerator mom
\* of the fraction mom / AvgMomDen^count.
AM_init == [val |-> 0, sum |-> 0, count |-> 0, mom |-> 0]

\* AverageMeter.reset: calls __init__ again
AM_reset(m) == AM_init

\* AverageMeter.update(val)
AM_update(m, v) ==
    [val |-> v,
     count |-> m.count + 1,
     sum |-> m.sum + v * (m.count + 1),
     mom |-> m.mom * AvgMomNum + v * (AvgMomDen - AvgMomNum) * Pow(AvgMomDen, m.count)]

\* AverageMeter.avg: self.sum / self.count (raises when count is 0)
AM_avg(m) == Frac(m.sum, m.count)

AmInit ==
    /\ am = AM_init
    /\ am_fed = <<>>
    /\ am_op = "new"

AmIdle == AmInit

AmUpdate ==
    \E v \in 0..MaxLoss :
        /\ Len(am_fed) < MaxUpdates
        /\ am' = AM_update(am, v)
        /\ am_fed' = Append(am_fed, v)
        /\ am_op' = "update"
        /\ UNCHANGED <<learnerVars, cblVars, srVars, rlrVars, rsVars, ccVars, msVars, encVars, tqVars>>

AmReset ==
    /\ am_op # "reset"
    /\ am' = AM_reset(am)
    /\ am_fed' = <<>>
    /\ am_op' = "reset"
    /\ UNCHANGED <<learnerVars, cblVars, srVars, rlrVars, rsVars, ccVars, msVars, encVars, tqVars>>

AmNext ==
    \/ AmUpdate
    \/ AmReset

\* ---------------------------------------------------------- ClassifierCore
\* The core: its logs dict and meter, the version of the parameters of its
\* model, the number of steps its optimizer has taken, and the loss whose
\* gradient the parameters hold (Unset when none was computed).
CC_init == [logs |-> EmptyDict, avg_meter |-> AM_init, params |-> 0, optim |-> 0,
            grad |-> 0 - 1]

\* on_new_epoch without `self.avg_meter = tensor_tools.AverageMeter()`
CC_on_new_epoch_keepsMeter(core) == [core EXCEPT !.logs = EmptyDict]

\* ClassifierCore.on_new_epoch
CC_on_new_epoch(core) == [core EXCEPT !.logs = EmptyDict, !.avg_meter = AM_init]

\* on_forward_batch with the test `step != "prediction"` dropped
CC_on_forward_batch_alwaysLogs(core, s, loss) ==
    LET meter == AM_update(core.avg_meter, loss)
        logs == Update(core.logs, {<<"batch_logs", {<<"loss", loss>>}>>})
    IN IF s = "training"
       THEN [core EXCEPT
                !.avg_meter = meter,
                !.grad = loss,
                !.params = @ + 1,
                !.optim = @ + 1,
                !.logs = Update(logs, {<<"epoch_logs", {<<"train loss", AM_avg(meter)>>}>>})]
       ELSE [core EXCEPT
                !.avg_meter = meter,
                !.logs = Update(logs, {<<"epoch_logs", {<<"valid loss", AM_avg(meter)>>}>>})]

\* on_forward_batch with the test on "training" dropped
CC_on_forward_batch_optimizesAll(core, s, loss) ==
    IF s # "prediction"
    THEN LET meter == AM_update(core.avg_meter, loss)
             logs == Update(core.logs, {<<"batch_logs", {<<"loss", loss>>}>>})
         IN [core EXCEPT
                !.avg_meter = meter,
                !.grad = loss,
                !.params = @ + 1,
                !.optim = @ + 1,
                !.logs = Update(logs, {<<"epoch_logs", {<<"train loss", AM_avg(meter)>>}>>})]
    ELSE core

\* ClassifierCore.on_forward_batch(step, inputs, targets), loss the value of
\* the criterion on the batch: the core after the call.
CC_on_forward_batch(core, s, loss) ==
    IF s # "prediction"
    THEN LET meter == AM_update(core.avg_meter, loss)
             logs == Update(core.logs, {<<"batch_logs", {<<"loss", loss>>}>>})
         IN IF s = "training"
            THEN [core EXCEPT
                    !.avg_meter = meter,
                    !.grad = loss,
                    !.params = @ + 1,
                    !.optim = @ + 1,
                    !.logs = Update(logs,
                        {<<"epoch_logs", {<<"train loss", AM_avg(meter)>>}>>})]
            ELSE [core EXCEPT
                    !.avg_meter = meter,
                    !.logs = Update(logs,
                        {<<"epoch_logs", {<<"valid loss", AM_avg(meter)>>}>>})]
    ELSE core

Steps == {"training", "validation", "prediction"}

NoCall == [method |-> "none", step |-> "none", loss |-> 0]

CcInit ==
    /\ cc = CC_init
    /\ cc_prev = CC_init
    /\ cc_last = NoCall
    /\ cc_calls = 0
    /\ cc_fed = <<>>

CcIdle == CcInit

CcForwardBatch ==
    \E s \in Steps, loss \in 0..MaxLoss :
        /\ cc_calls < MaxCoreCalls
        /\ cc' = CC_on_forward_batch(cc, s, loss)
        /\ cc_fed' = IF s # "prediction" THEN Append(cc_fed, loss) ELSE cc_fed
        /\ cc_prev' = cc
        /\ cc_last' = [method |-> "on_forward_batch", step |-> s, loss |-> loss]
        /\ cc_calls' = cc_calls + 1
        /\ UNCHANGED <<learnerVars, cblVars, srVars, rlrVars, rsVars, amVars, msVars, encVars, tqVars>>

CcNewEpoch ==
    /\ cc_last.method = "on_forward_batch"
    /\ cc' = CC_on_new_epoch(cc)
    /\ cc_fed' = <<>>
    /\ cc_prev' = cc
    /\ cc_last' = [method |-> "on_new_epoch", step |-> "none", loss |-> 0]
    /\ UNCHANGED cc_calls
    /\ UNCHANGED <<learnerVars, cblVars, srVars, rlrVars, rsVars, amVars, msVars, encVars, tqVars>>

CcNext ==
    \/ CcForwardBatch
    \/ CcNewEpoch

\* ------------------------------------------- ModelSaverCallback.on_epoch_end
\* The file <k>.pth has no epoch suffix.
NoSuffix == 0 - 1

\* The files of to_dir: <<k, NoSuffix>> is <k>.pth, <<k, e>> is <k>_epoch-<e>.pth
FileNames == ClassNames \X ({NoSuffix} \cup 1..MaxEpochs)

EmptyDir == [f \in FileNames |-> NoFile]

\* core.get_models: the models keyed by model.__class__.__name__
GetModels(models) == {<<models[i].cls, models[i]>> : i \in 1..Len(models)}

\* The logs the saver finds in on_epoch_end: the step and the models.
SaverLogs(s, models) == {<<"step", s>>, <<"models", GetModels(models)>>}

\* the test on the last epoch left out
ShouldSave_everyNOnly(e, every, epochs) == e % every = 0

\* `epoch % self.every_n_epoch == 0 or epoch == self.epochs`
ShouldSave(e, every, epochs) == e % every = 0 \/ e = epochs

\* only the file of the epoch written
Lite_SavedFiles_epochOnly(k, e) == {<<k, e>>}

\* torchlite: the files written for the model under key k
Lite_SavedFiles(k, e) == {<<k, e>>, <<k, NoSuffix>>}

\* torchlight: the file written for the model under key k
Light_SavedFiles(k, e) == {<<k, NoSuffix>>}

\* `for k, m in logs['models'].items(): torch.save(m.state_dict(), ...)`
SaveAll(dir, models, e, lib) ==
    LET SavedFiles(k) == IF lib = "torchlite" THEN Lite_SavedFiles(k, e)
                         ELSE Light_SavedFiles(k, e)
    IN [f \in FileNames |->
            IF \E km \in models : f \in SavedFiles(km[1])
            THEN (CHOOSE km \in models : f \in SavedFiles(km[1]))[2].state
            ELSE dir[f]]

\* on_epoch_end(e, logs): to_dir afterwards, and whether the models were saved
Lite_MS_on_epoch_end(dir, epochs, every, e, logs) ==
    IF Get(logs, "step") = "training" /\ ShouldSave(e, every, epochs)
    THEN [dir |-> SaveAll(dir, Get(logs, "models"), e, "torchlite"), saved |-> TRUE]
    ELSE [dir |-> dir, saved |-> FALSE]

Light_MS_on_epoch_end(dir, epochs, every, e, logs) ==
    IF Get(logs, "step") = "training" /\ ShouldSave(e, every, epochs)
    THEN [dir |-> SaveAll(dir, Get(logs, "models"), e, "torchlight"), saved |-> TRUE]
    ELSE [dir |-> dir, saved |-> FALSE]

\* The hooks ModelSaverCallback inherits from TrainCallback: `pass`.
InheritedHooks ==
    {"on_train_begin", "on_epoch_begin", "on_batch_begin", "on_batch_end",
     "on_train_end"}

\* What restore_models sees of a directory: <class name>.pth for each class.
PthFiles(dir) == [c \in ClassNames |-> dir[<<c, NoSuffix>>]]

\* An operation: its epoch and step, and whether it changed a model.
Operation(op, e, s, changed) == [op |-> op, epoch |-> e, step |-> s, changed |-> changed]

NoSave == [some |-> FALSE, models |-> <<>>]

MsInit ==
    /\ ms_lib \in {"torchlite", "torchlight"}
    /\ ms_epochs \in 1..MaxEpochs
    /\ ms_every \in 1..MaxEpochs
    /\ ms_dir = EmptyDir
    /\ ms_models \in {[i \in 1..Len(q) |-> Model(q[i], FreshState)] :
                        q \in DistinctSeqs(ClassNames, MaxModels)}
    /\ ms_epoch = 1
    /\ ms_last = Operation("none", 0, "none", FALSE)
    /\ ms_before = EmptyDir
    /\ ms_saved = NoSave
    /\ ms_result = "none"

MsIdle ==
    /\ ms_lib = "torchlite"
    /\ ms_epochs = 1
    /\ ms_every = 1
    /\ ms_dir = EmptyDir
    /\ ms_models = <<>>
    /\ ms_epoch = 1
    /\ ms_last = Operation("none", 0, "none", FALSE)
    /\ ms_before = EmptyDir
    /\ ms_saved = NoSave
    /\ ms_result = "none"

\* A training batch changes the state of a model (at most once per epoch here).
MsTrainStep ==
    \E i \in 1..Len(ms_models) :
        /\ ms_result # "AssertionError"
        /\ ms_models[i].state < ms_epoch
        /\ ms_models' = [ms_models EXCEPT ![i].state = @ + 1]
        /\ ms_last' = Operation("train_step", ms_epoch, "training", TRUE)
        /\ ms_before' = ms_dir
        /\ UNCHANGED <<ms_lib, ms_epochs, ms_every, ms_dir, ms_epoch, ms_saved, ms_result>>
        /\ UNCHANGED <<learnerVars, cblVars, srVars, rlrVars, rsVars, amVars, ccVars, encVars, tqVars>>

\* One of the hooks the class does not override is called.
MsInheritedHook ==
    \E h \in InheritedHooks :
        /\ ms_result # "AssertionError"
        /\ ms_last' = Operation(h, ms_epoch, "training", FALSE)
        /\ ms_before' = ms_dir
        /\ UNCHANGED <<ms_lib, ms_epochs, ms_every, ms_dir, ms_models, ms_epoch, ms_saved,
                       ms_result>>
        /\ UNCHANGED <<learnerVars, cblVars, srVars, rlrVars, rsVars, amVars, ccVars, encVars, tqVars>>

\* on_epoch_end(epoch, {"step": s, "models": core.get_models})
MsEpochEnd ==
    \E s \in {"training", "validation"} :
        /\ ms_result # "AssertionError"
        /\ LET logs == SaverLogs(s, ms_models)
               r == IF ms_lib = "torchlite"
                    THEN Lite_MS_on_epoch_end(ms_dir, ms_epochs, ms_every, ms_epoch, logs)
                    ELSE Light_MS_on_epoch_end(ms_dir, ms_epochs, ms_every, ms_epoch, logs)
           IN /\ ms_dir' = r.dir
              /\ ms_saved' = IF r.saved THEN [some |-> TRUE, models |-> ms_models]
                             ELSE ms_saved
        /\ ms_last' = Operation("on_epoch_end", ms_epoch, s, FALSE)
        /\ ms_before' = ms_dir
        /\ UNCHANGED <<ms_lib, ms_epochs, ms_every, ms_models, ms_epoch, ms_result>>
        /\ UNCHANGED <<learnerVars, cblVars, srVars, rlrVars, rsVars, amVars, ccVars, encVars, tqVars>>

\* The training goes on to the next epoch.
MsNextEpoch ==
    /\ ms_result # "AssertionError"
    /\ ms_last.op = "on_epoch_end"
    /\ ms_epoch < MaxEpochs
    /\ ms_epoch' = ms_epoch + 1
    /\ UNCHANGED <<ms_lib, ms_epochs, ms_every, ms_dir, ms_models, ms_last, ms_before,
                   ms_saved, ms_result>>
    /\ UNCHANGED <<learnerVars, cblVars, srVars, rlrVars, rsVars, amVars, ccVars, encVars, tqVars>>

\* ModelSaverCallback.restore_models(models, to_dir) of torchlite
MsRestore ==
    \E load_with_cpu \in BOOLEAN :
        /\ ms_result # "AssertionError"
        /\ LET r == Lite_restore_models(ms_models, PthFiles(ms_dir), load_with_cpu)
           IN /\ ms_models' = r.models
              /\ ms_result' = r.result
              /\ ms_last' = Operation("restore_models", ms_epoch, "none",
                                      r.models # ms_models)
        /\ ms_before' = ms_dir
        /\ UNCHANGED <<ms_lib, ms_epochs, ms_every, ms_dir, ms_epoch, ms_saved>>
        /\ UNCHANGED <<learnerVars, cblVars, srVars, rlrVars, rsVars, amVars, ccVars, encVars, tqVars>>

MsNext ==
    \/ MsTrainStep
    \/ MsInheritedHook
    \/ MsEpochEnd
    \/ MsNextEpoch
    \/ MsRestore

\* ------------------------------------------------ BaseEncoder, TreeEncoder
\* A DataFrame is the sequence of its columns; of a column only the name, the
\* dtype and whether it holds a NaN are kept. The frames have rows.
ColNames == {"a", "b"}

Column(name, dtype, nan) == [name |-> name, dtype |-> dtype, nan |-> nan]

\* pandas.api.types.is_numeric_dtype
IsNumericDtype(t) == t \in {"int", "float", "bool"}

\* df.columns
Columns(df) == [i \in 1..Len(df) |-> df[i].name]

\* c in df.columns
HasCol(df, c) == \E i \in 1..Len(df) : df[i].name = c

\* df[c]
Col(df, c) == df[CHOOSE i \in 1..Len(df) : df[i].name = c]

\* df[col.name] = col: the column is replaced where it is, or added at the end
SetCol(df, col) ==
    IF HasCol(df, col.name)
    THEN [i \in 1..Len(df) |-> IF df[i].name = col.name THEN col ELSE df[i]]
    ELSE Append(df, col)

\* X[[feat for feat in all_feat if feat in X.columns]].copy()
RECURSIVE Select(_, _)
Select(X, feats) ==
    IF feats = <<>> THEN <<>>
    ELSE (IF HasCol(X, Head(feats)) THEN <<Col(X, Head(feats))>> ELSE <<>>)
            \o Select(X, Tail(feats))

\* The outcome of a step on a frame: an error, or the frame afterwards.
Ok(df) == [err |-> "none", df |-> df]

Err(e) == [err |-> e, df |-> <<>>]

\* self.tfs_list, {} at construction: stage is the last key fit has set
\* ("none", then "num_cols", then "cols"); of missing and categ_cols only the
\* keys are kept.
Unfitted == [stage |-> "none", missing |-> <<>>, categ_cols |-> <<>>, num_cols |-> <<>>,
             cols |-> <<>>]

\* col + '_na'
NaName(c) == c \o "_na"

\* TreeEncoder._perform_na_fit: the keys of missing, in order
Tree_perform_na_fit(df, all_feat) ==
    SelectSeq(all_feat, LAMBDA f : IsNumericDtype(Col(df, f).dtype) /\ Col(df, f).nan)

\* TreeEncoder._perform_na_transform
RECURSIVE Tree_perform_na_transform(_, _)
Tree_perform_na_transform(df, missing) ==
    IF missing = <<>> THEN Ok(df)
    ELSE LET c == Head(missing)
         IN IF ~HasCol(df, c) THEN Err("KeyError")
            ELSE Tree_perform_na_transform(
                    SetCol(SetCol(df, Column(NaName(c), "bool", FALSE)),
                           Column(c, Col(df, c).dtype, FALSE)),
                    Tail(missing))

\* TreeEncoder._perform_categ_fit: the keys of categ_cols, in order
Tree_perform_categ_fit(df, categorical_vars) ==
    SelectSeq(categorical_vars, LAMBDA c : HasCol(df, c))

\* TreeEncoder._perform_categ_transform: the codes of the categories, plus one
RECURSIVE Tree_perform_categ_transform(_, _)
Tree_perform_categ_transform(df, categ_cols) ==
    IF categ_cols = <<>> THEN Ok(df)
    ELSE LET c == Head(categ_cols)
         IN IF ~HasCol(df, c) THEN Err("KeyError")
            ELSE Tree_perform_categ_transform(SetCol(df, Column(c, "int", FALSE)),
                                              Tail(categ_cols))

\* df[num_cols] = self.numeric_scaler.transform(df[num_cols].astype(np.float32).values)
RECURSIVE AsFloat(_, _)
AsFloat(df, num_cols) ==
    IF num_cols = <<>> THEN df
    ELSE AsFloat(SetCol(df, Column(Head(num_cols), "float", Col(df, Head(num_cols)).nan)),
                 Tail(num_cols))

\* astype cannot convert the strings of an object column; the scaler refuses
\* to transform before its fit has returned, and refuses an array without
\* features.
Scale(df, num_cols, fitted) ==
    IF \E i \in 1..Len(num_cols) : ~HasCol(df, num_cols[i]) THEN Err("KeyError")
    ELSE IF ~fitted THEN Err("NotFittedError")
    ELSE IF num_cols = <<>> THEN Err("ValueError")
    ELSE IF \E i \in 1..Len(num_cols) : ~IsNumericDtype(Col(df, num_cols[i]).dtype)
         THEN Err("ValueError")
    ELSE Ok(AsFloat(df, num_cols))

\* BaseEncoder._get_all_non_numeric
GetAllNonNumeric(df) == SelectSeq(Columns(df), LAMBDA c : ~IsNumericDtype(Col(df, c).dtype))

\* _check_integrity without the comparison of the two lists
CheckIntegrity_setsOnly(cols, df) ==
    LET a == {cols[i] : i \in 1..Len(cols)}
        b == {df[i].name : i \in 1..Len(df)}
    IN IF (a \ b) \cup (b \ a) # {} THEN "ColumnsMismatch"
       ELSE "True"

\* BaseEncoder._check_integrity: the value it returns ("True"), or the
\* exception it raises
CheckIntegrity(cols, df) ==
    LET a == {cols[i] : i \in 1..Len(cols)}
        b == {df[i].name : i \in 1..Len(df)}
    IN IF (a \ b) \cup (b \ a) # {} THEN "ColumnsMismatch"
       ELSE IF cols = Columns(df) THEN "True"
       ELSE "ColumnsOrder"

\* What a call returns or raises: df is the frame returned, listed the
\* columns named by the exception.
Result(result, df, listed) == [result |-> result, df |-> df, listed |-> listed]

\* the test written `len(non_num_cols) > 1`
SomeNonNumeric_moreThanOne(non_num_cols) == Len(non_num_cols) > 1

\* `len(non_num_cols) > 0`
SomeNonNumeric(non_num_cols) == Len(non_num_cols) > 0

\* `nan_ratio.all() > 0`: all() is True when no column has a zero ratio
NaNFound(df) == \A i \in 1..Len(df) : df[i].nan

\* BaseEncoder.fit(X): tfs_list afterwards, and the error raised if any
Enc_fit(numeric_vars, categorical_vars, fix_missing, scaler, tfs, X) ==
    LET all_feat == categorical_vars \o numeric_vars
        df0 == Select(X, all_feat)
        absent == \E i \in 1..Len(all_feat) : ~HasCol(df0, all_feat[i])
        missing == IF fix_missing THEN Tree_perform_na_fit(df0, all_feat) ELSE tfs.missing
        df1 == IF fix_missing THEN Tree_perform_na_transform(df0, missing) ELSE Ok(df0)
        categ_cols == Tree_perform_categ_fit(df1.df, categorical_vars)
        df2 == Tree_perform_categ_transform(df1.df, categ_cols)
        num_cols == SelectSeq(Columns(df2.df),
                        LAMBDA c : IsNumericDtype(Col(df2.df, c).dtype)
                                    /\ \E i \in 1..Len(numeric_vars) : numeric_vars[i] = c)
    IN IF fix_missing /\ absent THEN [tfs |-> tfs, err |-> "KeyError"]
       ELSE IF scaler /\ num_cols = <<>>
            THEN [tfs |-> [stage |-> "num_cols", missing |-> missing,
                           categ_cols |-> categ_cols, num_cols |-> num_cols,
                           cols |-> tfs.cols],
                  err |-> "ValueError"]
       ELSE [tfs |-> [stage |-> "cols", missing |-> missing, categ_cols |-> categ_cols,
                      num_cols |-> num_cols, cols |-> Columns(df2.df)],
             err |-> "none"]

\* BaseEncoder.transform(X)
Enc_transform(numeric_vars, categorical_vars, fix_missing, scaler, tfs, X) ==
    LET all_feat == categorical_vars \o numeric_vars
        df0 == Select(X, all_feat)
        df1 == IF fix_missing THEN Tree_perform_na_transform(df0, tfs.missing) ELSE Ok(df0)
        df2 == Tree_perform_categ_transform(df1.df, tfs.categ_cols)
        df3 == IF scaler THEN Scale(df2.df, tfs.num_cols, tfs.stage = "cols") ELSE Ok(df2.df)
        non_num_cols == GetAllNonNumeric(df3.df)
    IN IF tfs.stage = "none" THEN Result("KeyError", <<>>, <<>>)
       ELSE IF df1.err # "none" THEN Result(df1.err, <<>>, <<>>)
       ELSE IF df2.err # "none" THEN Result(df2.err, <<>>, <<>>)
       ELSE IF df3.err # "none" THEN Result(df3.err, <<>>, <<>>)
       ELSE IF SomeNonNumeric(non_num_cols) THEN Result("NotNumeric", <<>>, non_num_cols)
       ELSE IF fix_missing /\ NaNFound(df3.df) THEN Result("NaNFound", <<>>, <<>>)
       ELSE LET checked == CheckIntegrity(tfs.cols, df3.df)
            IN IF checked = "True" THEN Result("returned", df3.df, <<>>)
               ELSE Result(checked, <<>>, <<>>)

\* The frames passed to fit and transform: columns of distinct names, of
\* floats or of objects (strings that are not numbers), with or without NaN.
Frames ==
    UNION {{[i \in 1..Len(q) |-> Column(q[i], t[i], n[i])] :
                t \in [1..Len(q) -> {"float", "object"}], n \in [1..Len(q) -> BOOLEAN]} :
            q \in DistinctSeqs(ColNames, Cardinality(ColNames))}

NoResult == Result("none", <<>>, <<>>)

EncInit ==
    /\ enc_numeric_vars \in DistinctSeqs(ColNames, Cardinality(ColNames))
    /\ enc_categorical_vars \in
          {q \in DistinctSeqs(ColNames, Cardinality(ColNames)) :
              \A i \in 1..Len(q), j \in 1..Len(enc_numeric_vars) : q[i] # enc_numeric_vars[j]}
    /\ enc_fix_missing \in BOOLEAN
    /\ enc_scaler \in BOOLEAN
    /\ enc_tfs = Unfitted
    /\ enc_op = "new"
    /\ enc_X = <<>>
    /\ enc_result = NoResult

EncIdle ==
    /\ enc_numeric_vars = <<>>
    /\ enc_categorical_vars = <<>>
    /\ enc_fix_missing = FALSE
    /\ enc_scaler = FALSE
    /\ enc_tfs = Unfitted
    /\ enc_op = "new"
    /\ enc_X = <<>>
    /\ enc_result = NoResult

\* fit(X) on a new encoder
EncFit ==
    \E X \in Frames :
        /\ enc_op = "new"
        /\ LET r == Enc_fit(enc_numeric_vars, enc_categorical_vars, enc_fix_missing,
                            enc_scaler, enc_tfs, X)
           IN /\ enc_tfs' = r.tfs
              /\ enc_result' = Result(IF r.err = "none" THEN "returned" ELSE r.err, <<>>, <<>>)
        /\ enc_op' = "fit"
        /\ enc_X' = X
        /\ UNCHANGED <<enc_numeric_vars, enc_categorical_vars, enc_fix_missing, enc_scaler>>
        /\ UNCHANGED <<learnerVars, cblVars, srVars, rlrVars, rsVars, amVars, ccVars, msVars, tqVars>>

\* transform(X), on a new encoder or after fit
EncTransform ==
    \E X \in Frames :
        /\ enc_op \in {"new", "fit"}
        /\ enc_result' = Enc_transform(enc_numeric_vars, enc_categorical_vars,
                                       enc_fix_missing, enc_scaler, enc_tfs, X)
        /\ enc_op' = "transform"
        /\ enc_X' = X
        /\ UNCHANGED <<enc_numeric_vars, enc_categorical_vars, enc_fix_missing, enc_scaler,
                       enc_tfs>>
        /\ UNCHANGED <<learnerVars, cblVars, srVars, rlrVars, rsVars, amVars, ccVars, msVars, tqVars>>

\* _check_integrity(df), on a new encoder or after fit
EncCheckIntegrity ==
    \E df \in Frames :
        /\ enc_op \in {"new", "fit"}
        /\ enc_result' = IF enc_tfs.stage = "cols"
                         THEN Result(CheckIntegrity(enc_tfs.cols, df), <<>>, <<>>)
                         ELSE Result("KeyError", <<>>, <<>>)
        /\ enc_op' = "check"
        /\ enc_X' = df
        /\ UNCHANGED <<enc_numeric_vars, enc_categorical_vars, enc_fix_missing, enc_scaler,
                       enc_tfs>>
        /\ UNCHANGED <<learnerVars, cblVars, srVars, rlrVars, rsVars, amVars, ccVars, msVars, tqVars>>

EncNext ==
    \/ EncFit
    \/ EncTransform
    \/ EncCheckIntegrity

\* --------------------------------------------------------------------- TQDM
\* A description of a bar: "Epochs <epoch>/<of>", "Validating", or a step.
Desc(text, e, of) == [text |-> text, epoch |-> e, of |-> of]

\* A tqdm bar: open from its construction to close(); n is its counter.
Bar(state, n, total, desc) == [state |-> state, n |-> n, total |-> total, desc |-> desc]

\* None, where a bar is expected
NoBar == Bar("none", 0, 0, Desc("", 0, 0))

\* tqdm(total=..., desc=...)
NewBar(total, desc) == Bar("open", 0, total, desc)

\* bar.close()
CloseBar(bar) == [bar EXCEPT !.state = "closed"]

\* bar.set_description(desc)
SetDescription(bar, desc) == [bar EXCEPT !.desc = desc]

\* bar.update(1): a closed bar is disabled and keeps its counter
UpdateBar(bar) == IF bar.state = "open" THEN [bar EXCEPT !.n = @ + 1] ELSE bar

\* TQDM.__init__
TQ_init == [train_pbar |-> NoBar, val_pbar |-> NoBar, total_epochs |-> 0,
            train_loader_len |-> 0, val_loader_len |-> 0]

\* The outcome of a hook: the callback afterwards, the operations it made on
\* a bar that was not open, and the error it raised.
TqOutcome(t, used, err) == [tq |-> t, used |-> used, err |-> err]

\* An operation on a bar that does not exist yet or is closed.
Used(op, bar, state) == [op |-> op, bar |-> bar, state |-> state]

\* TQDM.on_train_begin(logs)
TQ_on_train_begin(t, d) ==
    TqOutcome([t EXCEPT !.total_epochs = Get(d, "total_epochs"),
                        !.train_loader_len = Get(d, "train_loader"),
                        !.val_loader_len = IF Get(d, "val_loader") = NoSource
                                           THEN NoSource ELSE Get(d, "val_loader")],
              {}, "none")

\* TQDM.on_epoch_begin(epoch, logs)
TQ_on_epoch_begin(t, e, d) ==
    IF Get(d, "step") = "training"
    THEN TqOutcome([t EXCEPT !.train_pbar =
                        NewBar(t.train_loader_len, Desc("Epochs", e, t.total_epochs))],
                   {}, "none")
    ELSE IF Get(d, "step") = "validation"
    THEN TqOutcome([t EXCEPT !.val_pbar =
                        NewBar(t.val_loader_len, Desc("Validating", 0, 0))],
                   {}, "none")
    ELSE TqOutcome(t, {}, "none")

\* bar.close() on a bar: None has no close
CloseOf(t, which) ==
    IF t[which].state = "none" THEN TqOutcome(t, {Used("close", which, "none")}, "AttributeError")
    ELSE TqOutcome([t EXCEPT ![which] = CloseBar(t[which])],
                   IF t[which].state = "closed" THEN {Used("close", which, "closed")} ELSE {},
                   "none")

\* TQDM.on_epoch_end(epoch, logs)
TQ_on_epoch_end(t, e, d) ==
    IF Get(d, "step") = "training"
    THEN LET c == CloseOf(t, "train_pbar")
         IN IF c.err # "none" THEN c
            ELSE IF ~HasKey(d, "epoch_logs") \/ ~HasKey(d, "metrics_logs")
                 THEN TqOutcome(c.tq, c.used, "KeyError")
            ELSE c
    ELSE IF Get(d, "step") = "validation"
    THEN CloseOf(t, "val_pbar")
    ELSE TqOutcome(t, {}, "none")

\* TQDM.on_batch_end(batch, logs): every operation is on train_pbar
TQ_on_batch_end(t, b, d) ==
    LET bar == t.train_pbar
        validation == Get(d, "step") = "validation"
        described == IF validation THEN SetDescription(bar, Desc(Get(d, "step"), 0, 0))
                     ELSE bar
        used == IF bar.state = "open" THEN {}
                ELSE (IF validation THEN {Used("set_description", "train_pbar", bar.state)}
                      ELSE {})
                     \cup {Used("set_postfix", "train_pbar", bar.state),
                           Used("update", "train_pbar", bar.state)}
    IN IF bar.state = "none"
       THEN TqOutcome(t, {Used(IF validation THEN "set_description" ELSE "set_postfix",
                               "train_pbar", "none")}, "AttributeError")
       ELSE TqOutcome([t EXCEPT !.train_pbar = UpdateBar(described)], used, "none")

\* The logs the run passes to the epoch and batch hooks; the metrics of the
\* epoch are there when the run computes metrics.
TqLogs(s, hook, metrics) ==
    {<<"step", s>>}
        \cup (IF hook = "on_batch_end" THEN {<<"batch_logs", {<<"loss", 1>>}>>} ELSE {})
        \cup (IF hook = "on_epoch_end" THEN {<<"epoch_logs", {<<"loss", 1>>}>>} ELSE {})
        \cup (IF hook = "on_epoch_end" /\ metrics THEN {<<"metrics_logs", {}>>} ELSE {})

\* The number of batches of the loop of the step.
TqLoopLen == IF tq_step = "training" THEN tq_args.train_len ELSE tq_args.val_len

TqInit ==
    /\ tq = TQ_init
    /\ tq_args \in [epochs : 0..MaxEpochs, train_len : 0..MaxBatches,
                    val_len : {NoSource} \cup 1..MaxBatches, metrics : BOOLEAN]
    /\ tq_pc = "train_begin"
    /\ tq_epoch = 0
    /\ tq_batch = 0
    /\ tq_step = "training"
    /\ tq_used = {}
    /\ tq_ended = 0
    /\ tq_err = "none"

TqIdle ==
    /\ tq = TQ_init
    /\ tq_args = [epochs |-> 0, train_len |-> 0, val_len |-> NoSource, metrics |-> FALSE]
    /\ tq_pc = "train_begin"
    /\ tq_epoch = 0
    /\ tq_batch = 0
    /\ tq_step = "training"
    /\ tq_used = {}
    /\ tq_ended = 0
    /\ tq_err = "none"

\* The callback after a hook, and the run left by the error the hook raised.
TqNotified(o) ==
    /\ tq' = o.tq
    /\ tq_used' = tq_used \cup o.used
    /\ tq_err' = o.err

TqTrainBegin ==
    LET o == TQ_on_train_begin(tq, {<<"total_epochs", tq_args.epochs>>,
                                    <<"train_loader", tq_args.train_len>>,
                                    <<"val_loader", tq_args.val_len>>})
    IN /\ tq_pc = "train_begin"
       /\ TqNotified(o)
       /\ IF tq_args.epochs >= 1
          THEN /\ tq_epoch' = 1
               /\ tq_pc' = "epoch_begin"
          ELSE /\ tq_epoch' = tq_epoch
               /\ tq_pc' = "train_end"
       /\ UNCHANGED <<tq_args, tq_batch, tq_step, tq_ended>>
       /\ UNCHANGED <<learnerVars, cblVars, srVars, rlrVars, rsVars, amVars, ccVars, msVars, encVars>>

TqEpochBegin ==
    LET o == TQ_on_epoch_begin(tq, tq_epoch, TqLogs(tq_step, "on_epoch_begin", tq_args.metrics))
    IN /\ tq_pc = "epoch_begin"
       /\ TqNotified(o)
       /\ tq_batch' = 0
       /\ tq_ended' = IF tq_step = "training" THEN 0 ELSE tq_ended
       /\ tq_pc' = IF o.err # "none" THEN "failed"
                   ELSE IF TqLoopLen > 0 THEN "batch_begin" ELSE "epoch_end"
       /\ UNCHANGED <<tq_args, tq_epoch, tq_step>>
       /\ UNCHANGED <<learnerVars, cblVars, srVars, rlrVars, rsVars, amVars, ccVars, msVars, encVars>>

\* TQDM.on_batch_begin: pass; then the core processes the batch
TqBatchBegin ==
    /\ tq_pc = "batch_begin"
    /\ tq_pc' = "batch_end"
    /\ UNCHANGED <<tq, tq_args, tq_epoch, tq_batch, tq_step, tq_used, tq_ended, tq_err>>
    /\ UNCHANGED <<learnerVars, cblVars, srVars, rlrVars, rsVars, amVars, ccVars, msVars, encVars>>

TqBatchEnd ==
    LET o == TQ_on_batch_end(tq, tq_batch, TqLogs(tq_step, "on_batch_end", tq_args.metrics))
    IN /\ tq_pc = "batch_end"
       /\ TqNotified(o)
       /\ tq_ended' = IF tq_step = "training" THEN tq_ended + 1 ELSE tq_ended
       /\ IF o.err # "none"
          THEN /\ tq_pc' = "failed"
               /\ tq_batch' = tq_batch
          ELSE IF tq_batch + 1 < TqLoopLen
          THEN /\ tq_batch' = tq_batch + 1
               /\ tq_pc' = "batch_begin"
          ELSE /\ tq_batch' = tq_batch
               /\ tq_pc' = "epoch_end"
       /\ UNCHANGED <<tq_args, tq_epoch, tq_step>>
       /\ UNCHANGED <<learnerVars, cblVars, srVars, rlrVars, rsVars, amVars, ccVars, msVars, encVars>>

TqEpochEnd ==
    LET o == TQ_on_epoch_end(tq, tq_epoch, TqLogs(tq_step, "on_epoch_end", tq_args.metrics))
    IN /\ tq_pc = "epoch_end"
       /\ TqNotified(o)
       /\ IF o.err # "none"
          THEN /\ tq_pc' = "failed"
               /\ UNCHANGED <<tq_epoch, tq_step>>
          ELSE IF tq_step = "training" /\ tq_args.val_len # NoSource
          THEN /\ tq_step' = "validation"
               /\ tq_epoch' = tq_epoch
               /\ tq_pc' = "epoch_begin"
          ELSE /\ tq_step' = "training"
               /\ IF tq_epoch < tq_args.epochs
                  THEN /\ tq_epoch' = tq_epoch + 1
                       /\ tq_pc' = "epoch_begin"
                  ELSE /\ tq_epoch' = tq_epoch
                       /\ tq_pc' = "train_end"
       /\ tq_batch' = 0
       /\ UNCHANGED <<tq_args, tq_ended>>
       /\ UNCHANGED <<learnerVars, cblVars, srVars, rlrVars, rsVars, amVars, ccVars, msVars, encVars>>

\* on_train_end is the one TQDM inherits: pass
TqTrainEnd ==
    /\ tq_pc = "train_end"
    /\ tq_pc' = "done"
    /\ UNCHANGED <<tq, tq_args, tq_epoch, tq_batch, tq_step, tq_used, tq_ended, tq_err>>
    /\ UNCHANGED <<learnerVars, cblVars, srVars, rlrVars, rsVars, amVars, ccVars, msVars, encVars>>

TqNext ==
    \/ TqTrainBegin
    \/ TqEpochBegin
    \/ TqBatchBegin
    \/ TqBatchEnd
    \/ TqEpochEnd
    \/ TqTrainEnd

\* ----------------------------------------------------------- specifications
\* Learner.train
Init ==
    /\ LearnerInit
    /\ CblIdle
    /\ SrIdle
    /\ RlrIdle
    /\ RsIdle
    /\ AmIdle
    /\ CcIdle
    /\ MsIdle
    /\ EncIdle
    /\ TqIdle

Next == LearnerNext

Spec == Init /\ [][Next]_vars

\* The runs in which every callback returns from every hook, executed: train
\* is one synchronous thread of control, so the statement it has reached is
\* executed as long as there is one.
NextLive == Next /\ failure' = NoFailure

SpecLive == Init /\ [][NextLive]_vars /\ WF_vars(NextLive)

\* A TrainCallbackList driven by any caller
InitCBL ==
    /\ CblInit
    /\ LearnerIdle
    /\ SrIdle
    /\ RlrIdle
    /\ RsIdle
    /\ AmIdle
    /\ CcIdle
    /\ MsIdle
    /\ EncIdle
    /\ TqIdle

NextCBL == CblNext

SpecCBL == InitCBL /\ [][NextCBL]_vars

\* SRGAN.forward
InitSRGAN ==
    /\ SrInit
    /\ LearnerIdle
    /\ CblIdle
    /\ RlrIdle
    /\ RsIdle
    /\ AmIdle
    /\ CcIdle
    /\ MsIdle
    /\ EncIdle
    /\ TqIdle

NextSRGAN == SrNext

SpecSRGAN == InitSRGAN /\ [][NextSRGAN]_vars

\* ReduceLROnPlateau.on_epoch_end
InitRLR ==
    /\ RlrInit
    /\ LearnerIdle
    /\ CblIdle
    /\ SrIdle
    /\ RsIdle
    /\ AmIdle
    /\ CcIdle
    /\ MsIdle
    /\ EncIdle
    /\ TqIdle

NextRLR == RlrNext

SpecRLR == InitRLR /\ [][NextRLR]_vars

\* ModelSaverCallback.restore_models (torchlite), restore_model (torchlight)
InitRestore ==
    /\ RsInit
    /\ LearnerIdle
    /\ CblIdle
    /\ SrIdle
    /\ RlrIdle
    /\ AmIdle
    /\ CcIdle
    /\ MsIdle
    /\ EncIdle
    /\ TqIdle

NextRestore == RsNext

SpecRestore == InitRestore /\ [][NextRestore]_vars

\* An AverageMeter fed by any caller
InitMeter ==
    /\ AmInit
    /\ LearnerIdle
    /\ CblIdle
    /\ SrIdle
    /\ RlrIdle
    /\ RsIdle
    /\ CcIdle
    /\ MsIdle
    /\ EncIdle
    /\ TqIdle

NextMeter == AmNext

SpecMeter == InitMeter /\ [][NextMeter]_vars

\* A ClassifierCore driven by any caller
InitCore ==
    /\ CcInit
    /\ LearnerIdle
    /\ CblIdle
    /\ SrIdle
    /\ RlrIdle
    /\ RsIdle
    /\ AmIdle
    /\ MsIdle
    /\ EncIdle
    /\ TqIdle

NextCore == CcNext

SpecCore == InitCore /\ [][NextCore]_vars

\* A ModelSaverCallback during a training, and restore_models on its directory
InitSaver ==
    /\ MsInit
    /\ LearnerIdle
    /\ CblIdle
    /\ SrIdle
    /\ RlrIdle
    /\ RsIdle
    /\ AmIdle
    /\ CcIdle
    /\ EncIdle
    /\ TqIdle

NextSaver == MsNext

SpecSaver == InitSaver /\ [][NextSaver]_vars

\* A TreeEncoder fitted on one DataFrame and applied to another
InitEncoder ==
    /\ EncInit
    /\ LearnerIdle
    /\ CblIdle
    /\ SrIdle
    /\ RlrIdle
    /\ RsIdle
    /\ AmIdle
    /\ CcIdle
    /\ MsIdle
    /\ TqIdle

NextEncoder == EncNext

SpecEncoder == InitEncoder /\ [][NextEncoder]_vars

\* A TQDM callback notified by a training run, in the Learner's order
InitTQDM ==
    /\ TqInit
    /\ LearnerIdle
    /\ CblIdle
    /\ SrIdle
    /\ RlrIdle
    /\ RsIdle
    /\ AmIdle
    /\ CcIdle
    /\ MsIdle
    /\ EncIdle

NextTQDM == TqNext

SpecTQDM == InitTQDM /\ [][NextTQDM]_vars

\* =================================================================== claims
\* ---------------------------------------------------------- trace helpers
Max(S) == CHOOSE x \in S : \A y \in S : y <= x

\* The step a call was made for, read from the logs it was handed.
StepOf(r) ==
    IF <<"step", "training">> \in r.logs THEN "training"
    ELSE IF <<"step", "validation">> \in r.logs THEN "validation"
    ELSE "none"

\* The calls received by callback c, in order.
Seen(c) == SelectSeq(trace, LAMBDA r : r.rcv = c)

\* The calls received by callback c or by the core, in order.
SeenWithCore(c) == SelectSeq(trace, LAMBDA r : r.rcv = c \/ r.rcv = Core)

\* The calls received by the core, in order.
CoreCalls == SelectSeq(trace, LAMBDA r : r.rcv = Core)

Count(t, hook, s) ==
    Cardinality({i \in 1..Len(t) : t[i].hook = hook /\ StepOf(t[i]) = s})

IsEpochHook(r) == r.hook \in {"on_epoch_begin", "on_epoch_end"}

IsBatchHook(r) == r.hook \in {"on_batch_begin", "on_batch_end"}

\* The position of the last epoch notification before position i, 0 if none.
PrevEpochHook(t, i) ==
    LET J == {j \in 1..(i - 1) : IsEpochHook(t[j])}
    IN IF J = {} THEN 0 ELSE Max(J)

\* ----------------------------------------------------------------------- C1
\* C1: when train(N >= 1 epochs) has completed, every registered callback has
\* received on_epoch_begin exactly N times and on_epoch_end exactly N times
\* for the training step and, when a validation source was given, exactly N
\* times each for the validation step.
C1_EpochNotificationCounts ==
    (pc = "done" /\ num_epochs >= 1) =>
        \A c \in Registered :
            LET t == Seen(c)
            IN /\ Count(t, "on_epoch_begin", "training") = num_epochs
               /\ Count(t, "on_epoch_end", "training") = num_epochs
               /\ val_len # NoSource =>
                    /\ Count(t, "on_epoch_begin", "validation") = num_epochs
                    /\ Count(t, "on_epoch_end", "validation") = num_epochs

C1_Witness ==
    /\ pc = "done"
    /\ num_epochs = 2
    /\ Len(callbacks) = 2
    /\ val_len = 2
    /\ train_len = 1
    /\ Count(Seen(callbacks[2]), "on_epoch_end", "validation") = 2

\* ----------------------------------------------------------------------- C6
\* C6: for every registered callback, on_train_begin is the first call it
\* receives and is received once, on_train_end is the last and is received
\* once; the epochs begin in the order 1..N; every on_epoch_end closes the
\* on_epoch_begin of the same epoch and step; every batch notification lies
\* between the on_epoch_begin and the on_epoch_end of its step; an
\* on_epoch_begin never comes while an earlier epoch notification is open.
C6_Ordered(t) ==
    \A i \in 1..Len(t) :
        LET p == PrevEpochHook(t, i)
        IN /\ (t[i].hook = "on_train_begin") <=> (i = 1)
           /\ t[i].hook = "on_train_end" => i = Len(t)
           /\ t[i].hook = "on_epoch_begin" =>
                IF p = 0
                THEN t[i].arg = 1 /\ StepOf(t[i]) = "training"
                ELSE /\ t[p].hook = "on_epoch_end"
                     /\ \/ /\ StepOf(t[i]) = "training"
                           /\ t[i].arg = t[p].arg + 1
                        \/ /\ StepOf(t[i]) = "validation"
                           /\ StepOf(t[p]) = "training"
                           /\ t[i].arg = t[p].arg
           /\ t[i].hook = "on_epoch_end" =>
                /\ p # 0
                /\ t[p].hook = "on_epoch_begin"
                /\ t[p].arg = t[i].arg
                /\ StepOf(t[p]) = StepOf(t[i])
           /\ IsBatchHook(t[i]) =>
                /\ p # 0
                /\ t[p].hook = "on_epoch_begin"
                /\ StepOf(t[p]) = StepOf(t[i])

C6_Complete(t) ==
    /\ Len(t) >= 2
    /\ t[Len(t)].hook = "on_train_end"
    /\ Count(t, "on_train_end", "none") = 1
    /\ Count(t, "on_epoch_begin", "training") = num_epochs
    /\ Count(t, "on_epoch_end", "training") = num_epochs

C6_NotificationOrder ==
    \A c \in Registered :
        /\ C6_Ordered(Seen(c))
        /\ pc = "done" => C6_Complete(Seen(c))

C6_Witness ==
    /\ pc = "done"
    /\ num_epochs = 2
    /\ train_len = 2
    /\ val_len = 1
    /\ Len(callbacks) = 2
    /\ Len(Seen(callbacks[1])) = 2 + 2 * (2 + 4 + 2 + 2)

\* ----------------------------------------------------------------------- C7
\* C7: in the calls seen by a registered callback and the core, every
\* training on_batch_begin(b) is directly followed by one core call
\* on_forward_batch("training") for b and then by on_batch_end(b), and every
\* training core call and on_batch_end is preceded that way; after a run of N
\* epochs the callback has received train_len * N on_batch_begin and as many
\* on_batch_end for the training step, and the core train_len * N calls.
C7_Bracketed(t) ==
    \A i \in 1..Len(t) :
        /\ (t[i].hook = "on_batch_begin" /\ StepOf(t[i]) = "training") =>
             (i + 1 <= Len(t) =>
                /\ t[i + 1].rcv = Core
                /\ t[i + 1].hook = "on_forward_batch"
                /\ StepOf(t[i + 1]) = "training"
                /\ t[i + 1].arg = t[i].arg)
        /\ (t[i].rcv = Core /\ StepOf(t[i]) = "training") =>
             /\ i > 1
             /\ t[i - 1].hook = "on_batch_begin"
             /\ StepOf(t[i - 1]) = "training"
             /\ t[i - 1].arg = t[i].arg
             /\ i + 1 <= Len(t) =>
                  /\ t[i + 1].hook = "on_batch_end"
                  /\ StepOf(t[i + 1]) = "training"
                  /\ t[i + 1].arg = t[i].arg
        /\ (t[i].hook = "on_batch_end" /\ StepOf(t[i]) = "training") =>
             /\ i > 2
             /\ t[i - 1].rcv = Core
             /\ t[i - 2].hook = "on_batch_begin"
             /\ t[i - 2].arg = t[i].arg

C7_BatchNotifications ==
    /\ \A c \in Registered :
          /\ C7_Bracketed(SeenWithCore(c))
          /\ pc = "done" =>
               /\ Count(Seen(c), "on_batch_begin", "training") = train_len * num_epochs
               /\ Count(Seen(c), "on_batch_end", "training") = train_len * num_epochs
    /\ pc = "done" =>
          Count(CoreCalls, "on_forward_batch", "training") = train_len * num_epochs

C7_Witness ==
    /\ pc = "done"
    /\ num_epochs = 2
    /\ train_len = 2
    /\ Len(callbacks) = 2
    /\ Count(Seen(callbacks[2]), "on_batch_end", "training") = 4
    /\ Count(CoreCalls, "on_forward_batch", "training") = 4

\* ----------------------------------------------------------------------- C8
\* C8: with a validation source, the calls of the core in a completed run
\* are, epoch after epoch, train_len calls with step "training" followed by
\* val_len calls with step "validation", and every registered callback gets
\* the validation on_epoch_begin of an epoch right after the training
\* on_epoch_end of that epoch; without a validation source no call with step
\* "validation" is ever made, to a callback or to the core.
RECURSIVE Repeat(_, _)
Repeat(t, n) == IF n <= 0 THEN <<>> ELSE t \o Repeat(t, n - 1)

StepsOf(t) == [i \in 1..Len(t) |-> StepOf(t[i])]

C8_ValidationAfterTraining ==
    IF val_len = NoSource
    THEN \A i \in 1..Len(trace) : StepOf(trace[i]) # "validation"
    ELSE /\ pc = "done" =>
              StepsOf(CoreCalls) =
                  Repeat(Repeat(<<"training">>, train_len)
                             \o Repeat(<<"validation">>, val_len), num_epochs)
         /\ \A c \in Registered :
              LET t == Seen(c)
              IN \A i \in 1..Len(t) :
                    /\ (i < Len(t) /\ t[i].hook = "on_epoch_end"
                            /\ StepOf(t[i]) = "training") =>
                         /\ t[i + 1].hook = "on_epoch_begin"
                         /\ StepOf(t[i + 1]) = "validation"
                         /\ t[i + 1].arg = t[i].arg
                    /\ StepOf(t[i]) = "validation" =>
                         \E j \in 1..(i - 1) :
                             /\ t[j].hook = "on_epoch_end"
                             /\ StepOf(t[j]) = "training"

C8_Witness ==
    /\ pc = "done"
    /\ num_epochs = 2
    /\ train_len = 2
    /\ val_len = 2
    /\ Len(callbacks) = 1
    /\ Count(CoreCalls, "on_forward_batch", "validation") = 4

C2_DiscriminatorFirst ==
    \A i \in 1..Len(sr_ops) :
        sr_ops[i].on = "G" =>
            \E a, b, c \in 1..(i - 1) :
                /\ a < b
                /\ b < c
                /\ sr_ops[a] = Op("zero_grad", "D", FALSE)
                /\ sr_ops[b].op = "backward" /\ sr_ops[b].on = "D"
                /\ sr_ops[c] = Op("step", "D", FALSE)

C2_Witness ==
    /\ Stmt = "return"
    /\ sr_calls = 2
    /\ Len(sr_ops) = 6
    /\ sr_ops[6] = Op("step", "G", FALSE)
    /\ sr_params = [D |-> 2, G |-> 2]

\* ----------------------------------------------------------------------- C9
\* C9: whatever hook of a TrainCallbackList is called, the calls it makes go
\* to the callbacks of the constructor's list followed by the appended ones,
\* in that order, one call per registration, each with the hook that was
\* called and its index argument.
C9_RegistrationOrder ==
    cbl_last.hook # "none" =>
        LET registered == cbl_given.l \o cbl_appended
        IN /\ Len(cbl_calls) = Len(registered)
           /\ \A i \in 1..Len(cbl_calls) :
                 /\ cbl_calls[i].rcv = registered[i]
                 /\ cbl_calls[i].hook = cbl_last.hook
                 /\ cbl_calls[i].arg = cbl_last.arg

C9_Witness ==
    /\ cbl_given = List(<<2, 1>>)
    /\ cbl_appended = <<2, 1>>
    /\ cbl_last = [hook |-> "on_batch_end", arg |-> 1]
    /\ Len(cbl_calls) = 4
    /\ cbl_calls[3].rcv = 2

\* ----------------------------------------------------------------------- C3
\* C3: a ReduceLROnPlateau built with loss_step="valid" raises at every
\* training-step on_epoch_end whose logs hold no 'val_loss' key; it never
\* returns from such a call.
C3_ValidFailsFast ==
    (/\ rlr_result # "none"
     /\ rlr_loss_step = "valid"
     /\ Get(rlr_logs, "step") = "training"
     /\ ~HasKey(rlr_logs, "val_loss")) => rlr_result = "ValueError"

\* ----------------------------------------------------------------------- C4
\* Some passed model has no file of its class name in from_dir.
C4_Missing == \E k \in 1..Len(rs_passed) : ~IsFile(rs_dir, rs_passed[k])

\* C4: torchlite's restore_models ends in an assertion error when some passed
\* model has no <class name>.pth in from_dir, and returns when every passed
\* model has one, each model then holding the content of its file.
C4_RestoreModels ==
    rs_lib = "torchlite" =>
        IF C4_Missing
        THEN rs_result = "AssertionError"
        ELSE /\ rs_result = "returned"
             /\ Len(rs_models) = Len(rs_passed)
             /\ \A k \in 1..Len(rs_models) :
                   rs_models[k] = Model(rs_passed[k].cls, rs_dir[rs_passed[k].cls])

C4_Witness ==
    /\ rs_lib = "torchlite"
    /\ Len(rs_passed) = 2
    /\ IsFile(rs_dir, rs_passed[1])
    /\ ~IsFile(rs_dir, rs_passed[2])
    /\ rs_result = "AssertionError"

\* ----------------------------------------------------------------------- C5
\* C5: torchlight's restore_model fails when fewer passed models have their
\* <class name>.pth in from_dir than were passed, and completes normally when
\* every passed model has its file.
C5_RestoreModel ==
    (rs_lib = "torchlight" /\ Len(rs_passed) >= 1) =>
        IF RestoredCount(rs_dir, rs_passed) < Len(rs_passed)
        THEN rs_result # "returned"
        ELSE rs_result = "returned"

\* ---------------------------------------------------------------------- C11
Event(hook, arg, s) == [hook |-> hook, arg |-> arg, step |-> s]

\* The events of the batches b..n-1 of a loop.
RECURSIVE BatchEvents(_, _, _)
BatchEvents(s, b, n) ==
    IF b >= n THEN <<>>
    ELSE <<Event("on_batch_begin", b, s), Event("on_forward_batch", b, s),
           Event("on_batch_end", b, s)>> \o BatchEvents(s, b + 1, n)

LoopEvents(e, s, n) ==
    <<Event("on_epoch_begin", e, s)>> \o BatchEvents(s, 0, n)
        \o <<Event("on_epoch_end", e, s)>>

RECURSIVE EpochEvents(_, _)
EpochEvents(e, n) ==
    IF e > n THEN <<>>
    ELSE LoopEvents(e, "training", train_len)
            \o (IF val_len = NoSource THEN <<>> ELSE LoopEvents(e, "validation", val_len))
            \o EpochEvents(e + 1, n)

\* The lifecycle events fixed by the arguments of train alone: the epochs,
\* the batches and the invocations of the core.
Lifecycle ==
    <<Event("on_train_begin", 0, "none")>> \o EpochEvents(1, num_epochs)
        \o <<Event("on_train_end", 0, "none")>>

EventsOf(t) == [i \in 1..Len(t) |-> Event(t[i].hook, t[i].arg, StepOf(t[i]))]

\* C11: when train has completed and no callback has raised, the invocations
\* of the core are the ones fixed by the epoch count and the two sources, the
\* same with no callback registered as with any list of callbacks, whatever
\* these return from their hooks or write into the logs; and every registered
\* callback has seen, with the core, the whole lifecycle and nothing else.
C11_CallbacksCannotRedirect ==
    pc = "done" =>
        /\ EventsOf(CoreCalls) =
              SelectSeq(Lifecycle, LAMBDA ev : ev.hook = "on_forward_batch")
        /\ \A c \in Registered : EventsOf(SeenWithCore(c)) = Lifecycle

C11_Witness ==
    /\ pc = "done"
    /\ callbacks = <<2, 1>>
    /\ CallbackReturns(callbacks[1]) = "stop"
    /\ num_epochs = 2
    /\ train_len = 2
    /\ val_len = 1
    /\ Len(Seen(1)) = 22
    /\ <<"note", 2>> \in Seen(1)[1].logs

\* ---------------------------------------------------------------------- C12
\* The calls callback c has received for the notification that failed.
C12_Received(c) ==
    Cardinality({i \in 1..Len(trace) :
        /\ trace[i].rcv = c
        /\ trace[i].hook = failure.hook
        /\ trace[i].arg = failure.arg
        /\ StepOf(trace[i]) = failure.step})

\* C12: once a callback has raised in a notification, train has failed and
\* stays so; the trace ends with the calls of that notification to the
\* callbacks registered up to the failing one, in order; the callbacks
\* registered after it have not been called for that notification; and no
\* call has been made since, to a callback or to the core.
C12_FailureHalts ==
    failure.by # NoRaise =>
        LET k == CHOOSE i \in 1..Len(callbacks) : callbacks[i] = failure.by
            n == Len(trace)
        IN /\ pc = "failed"
           /\ n = failure.at
           /\ n >= k
           /\ \A i \in 1..k :
                 /\ trace[n - k + i].rcv = callbacks[i]
                 /\ trace[n - k + i].hook = failure.hook
                 /\ trace[n - k + i].arg = failure.arg
                 /\ StepOf(trace[n - k + i]) = failure.step
           /\ \A j \in (k + 1)..Len(callbacks) :
                 C12_Received(callbacks[j]) + 1 = C12_Received(failure.by)

C12_Witness ==
    /\ pc = "failed"
    /\ Len(callbacks) = 2
    /\ failure.by = callbacks[1]
    /\ failure.hook = "on_epoch_end"
    /\ failure.step = "training"
    /\ failure.arg = 1
    /\ num_epochs = 2
    /\ train_len = 2
    /\ Count(Seen(callbacks[1]), "on_epoch_end", "training") = 1
    /\ Count(Seen(callbacks[2]), "on_epoch_end", "training") = 0
    /\ Count(Seen(callbacks[2]), "on_batch_end", "training") = 2

\* ---------------------------------------------------------------------- C20
\* C20: in a notification every callback is handed the logs as the callbacks
\* registered before it left them: it finds under "visited" all of them, in
\* order, and under "note", the key they all write, the value of the one just
\* before it; after the notification "note" holds the value written by the
\* callback registered last.
C20_SharedLogs ==
    cbl_last.hook # "none" =>
        /\ \A i \in 1..Len(cbl_calls) :
              /\ GetOr(cbl_calls[i].logs, "visited", <<>>) = SubSeq(cbl, 1, i - 1)
              /\ i > 1 => GetOr(cbl_calls[i].logs, "note", 0) = cbl[i - 1]
        /\ cbl # <<>> =>
              /\ GetOr(cbl_after, "note", 0) = cbl[Len(cbl)]
              /\ GetOr(cbl_after, "visited", <<>>) = cbl

C20_Witness ==
    /\ cbl = <<1, 2, 2, 1>>
    /\ cbl_last.hook = "on_epoch_end"
    /\ Len(cbl_calls) = 4
    /\ <<"note", 2>> \in cbl_calls[4].logs
    /\ <<"visited", <<1, 2, 2>>>> \in cbl_calls[4].logs
    /\ <<"step", "training">> \in cbl_calls[4].logs
    /\ GetOr(cbl_after, "note", 0) = 1

\* ---------------------------------------------------------------------- C13
\* C13: a call of ClassifierCore.on_forward_batch changes the parameters of
\* the model and steps the optimizer exactly when its step is "training",
\* the gradient then being the one of the loss of the batch; with step
\* "validation" or "prediction" the parameters, the gradient and the
\* optimizer are as they were before the call.
C13_TrainingOnlyMutates ==
    cc_last.method = "on_forward_batch" =>
        IF cc_last.step = "training"
        THEN /\ cc.params # cc_prev.params
             /\ cc.optim = cc_prev.optim + 1
             /\ cc.grad = cc_last.loss
        ELSE /\ cc.params = cc_prev.params
             /\ cc.optim = cc_prev.optim
             /\ cc.grad = cc_prev.grad

C13_Witness ==
    /\ cc_last.method = "on_forward_batch"
    /\ cc_last.step = "validation"
    /\ cc_last.loss = 2
    /\ cc_calls = 2
    /\ cc_prev.params = 1
    /\ cc.params = 1
    /\ cc.avg_meter.count = 2

\* ---------------------------------------------------------------------- C14
\* C14: in a call of SRGAN.forward made in eval mode, as it is for a
\* validation batch, no optimizer is stepped: the parameters of netD and of
\* netG stay as they were.
C14_EvalDoesNotOptimize ==
    ~sr_training => \A i \in 1..Len(sr_ops) : sr_ops[i].op # "step"

\* ---------------------------------------------------------------------- C18
RECURSIVE SumSeq(_)
SumSeq(q) == IF q = <<>> THEN 0 ELSE Head(q) + SumSeq(Tail(q))

\* C18: after update(v1), ..., update(vn) on a new or reset AverageMeter, val
\* is vn and avg is (v1 + ... + vn) / n; after reset() the meter is in its
\* initial state.
C18_MeterAverages ==
    /\ am_op = "update" =>
          /\ am.val = am_fed[Len(am_fed)]
          /\ AM_avg(am).num * Len(am_fed) = SumSeq(am_fed) * AM_avg(am).den
    /\ am_op = "reset" => am = AM_init

\* ---------------------------------------------------------------------- C17
\* C17: a ReduceLROnPlateau built with loss_step="train" steps its scheduler
\* exactly once, with the training loss of the epoch and the epoch, in every
\* training-step on_epoch_end whose logs carry that loss the way the core
\* reports it, under epoch_logs; in a validation-step on_epoch_end it does
\* not step it.
C17_TrainLossStepsScheduler ==
    (rlr_result # "none" /\ rlr_loss_step = "train") =>
        /\ (/\ Get(rlr_logs, "step") = "training"
            /\ HasKey(rlr_logs, "epoch_logs")) =>
              rlr_stepped = <<<<Get(Get(rlr_logs, "epoch_logs"), "train loss"), rlr_epoch>>>>
        /\ Get(rlr_logs, "step") = "validation" => rlr_stepped = <<>>

\* ---------------------------------------------------------------------- C15
\* C15: an operation on a ModelSaverCallback changes its directory only when
\* it is on_epoch_end with step "training" at an epoch that is a multiple of
\* every_n_epoch or is the epoch count given to the constructor; every such
\* call leaves, for each model of the logs, a file <key>.pth holding the
\* state the model has then, and leaves the files of other keys alone; every
\* other call, of on_epoch_end or of another hook, leaves the directory as
\* it was.
C15_SavesAtEpochBoundaries ==
    IF /\ ms_last.op = "on_epoch_end"
       /\ ms_last.step = "training"
       /\ (ms_last.epoch % ms_every = 0 \/ ms_last.epoch = ms_epochs)
    THEN /\ \A i \in 1..Len(ms_models) :
               ms_dir[<<ms_models[i].cls, NoSuffix>>] = ms_models[i].state
         /\ \A f \in FileNames :
               (\A i \in 1..Len(ms_models) : ms_models[i].cls # f[1]) =>
                   ms_dir[f] = ms_before[f]
    ELSE ms_dir = ms_before

C15_Witness ==
    /\ ms_last = Operation("on_epoch_end", 1, "training", FALSE)
    /\ ms_lib = "torchlite"
    /\ ms_epochs = 1
    /\ ms_every = 2
    /\ ms_models = <<Model("Generator", 1)>>
    /\ ms_before = EmptyDir
    /\ ms_dir[<<"Generator", NoSuffix>>] = 1
    /\ ms_dir[<<"Generator", 1>>] = 1
    /\ ms_dir[<<"Discriminator", NoSuffix>>] = NoFile

\* ---------------------------------------------------------------------- C16
\* C16: once the saver has saved the models the core exposes under their
\* class names, restore_models on these models from the saver's directory
\* returns, and leaves every model in the state it had at the last save,
\* whatever the training made of the models since.
C16_RoundTrip ==
    (ms_last.op = "restore_models" /\ ms_saved.some) =>
        /\ ms_result = "returned"
        /\ ms_models = ms_saved.models

C16_Witness ==
    /\ ms_last.op = "restore_models"
    /\ ms_last.changed
    /\ ms_saved.some
    /\ ms_result = "returned"
    /\ ms_epoch = 2
    /\ ms_models = <<Model("Discriminator", 1), Model("Generator", 0)>>
    /\ ms_dir[<<"Generator", NoSuffix>>] = 0
    /\ ms_dir[<<"Discriminator", NoSuffix>>] = 1

\* C19: BaseEncoder.transform never returns a DataFrame that still has a
\* non-numeric column: a returned frame has numeric columns only, and whenever
\* a column left after the NA fixing, the categorical encoding and the scaling
\* is non-numeric, transform raises the error that lists exactly those columns.
C19_NeverReturnsNonNumeric ==
    enc_op = "transform" =>
        LET all_feat == enc_categorical_vars \o enc_numeric_vars
            df1 == IF enc_fix_missing
                   THEN Tree_perform_na_transform(Select(enc_X, all_feat), enc_tfs.missing)
                   ELSE Ok(Select(enc_X, all_feat))
            df2 == Tree_perform_categ_transform(df1.df, enc_tfs.categ_cols)
            df3 == IF enc_scaler
                   THEN Scale(df2.df, enc_tfs.num_cols, enc_tfs.stage = "cols")
                   ELSE Ok(df2.df)
            done == /\ enc_tfs.stage # "none"
                    /\ df1.err = "none" /\ df2.err = "none" /\ df3.err = "none"
            left == {df3.df[i].name : i \in {j \in 1..Len(df3.df) :
                                                ~IsNumericDtype(df3.df[j].dtype)}}
        IN /\ enc_result.result = "returned" =>
                \A i \in 1..Len(enc_result.df) : IsNumericDtype(enc_result.df[i].dtype)
           /\ (done /\ left # {}) =>
                /\ enc_result.result = "NotNumeric"
                /\ {enc_result.listed[i] : i \in 1..Len(enc_result.listed)} = left
           /\ enc_result.result = "NotNumeric" => (done /\ left # {})

\* transform raised for the one object column left among two columns
C19_Witness ==
    /\ enc_op = "transform"
    /\ enc_tfs.stage = "cols"
    /\ Len(Select(enc_X, enc_categorical_vars \o enc_numeric_vars)) = 2
    /\ enc_result.result = "NotNumeric"
    /\ Len(enc_result.listed) = 1

\* ---------------------------------------------------------------------- C21
\* The gradient and optimizer operations of one batch.
BatchOps ==
    <<Op("zero_grad", "D", FALSE), Op("backward", "D", TRUE), Op("step", "D", FALSE),
      Op("zero_grad", "G", FALSE), Op("backward", "G", FALSE), Op("step", "G", FALSE)>>

RECURSIVE MeterOf(_)
MeterOf(q) ==
    IF q = <<>> THEN AM_init
    ELSE AM_update(MeterOf(SubSeq(q, 1, Len(q) - 1)), q[Len(q)])

\* C22: after ClassifierCore.on_new_epoch the logs of the core are empty and
\* its meter is a new one; the epoch loss the core reports after the k-th
\* training or validation batch following on_new_epoch is the average a new
\* meter gives for the losses of those k batches, whatever was processed
\* before the reset.
C22_NewEpochRestartsAverage ==
    /\ cc_last.method = "on_new_epoch" =>
          /\ cc.logs = EmptyDict
          /\ cc.avg_meter = AM_init
    /\ (cc_last.method = "on_forward_batch" /\ cc_last.step # "prediction") =>
          /\ cc_fed # <<>>
          /\ Get(cc.logs, "epoch_logs") =
                {<<IF cc_last.step = "training" THEN "train loss" ELSE "valid loss",
                   AM_avg(MeterOf(cc_fed))>>}

\* a training batch before the reset, one of loss 1 after it
C22_Witness ==
    /\ cc_last = [method |-> "on_forward_batch", step |-> "training", loss |-> 1]
    /\ cc_fed = <<1>>
    /\ cc_calls = 2
    /\ cc.optim = 2
    /\ cc.avg_meter.count = 1
    /\ Get(cc.logs, "epoch_logs") = {<<"train loss", Frac(1, 1)>>}

\* ---------------------------------------------------------------------- C23
\* C23: a call of ClassifierCore.on_forward_batch with step "prediction"
\* leaves the core as it was: its logs, its meter (no loss is fed to it), the
\* parameters and the gradient of its model, and its optimizer.
C23_PredictionLeavesCore ==
    (cc_last.method = "on_forward_batch" /\ cc_last.step = "prediction") =>
        /\ cc.logs = cc_prev.logs
        /\ cc.avg_meter = cc_prev.avg_meter
        /\ cc.params = cc_prev.params
        /\ cc.grad = cc_prev.grad
        /\ cc.optim = cc_prev.optim

\* a prediction batch on a core that has trained on one batch
C23_Witness ==
    /\ cc_last.method = "on_forward_batch"
    /\ cc_last.step = "prediction"
    /\ cc_calls = 2
    /\ cc_prev.optim = 1
    /\ cc.avg_meter.count = 1
    /\ HasKey(cc.logs, "epoch_logs")

\* ---------------------------------------------------------------------- C24
\* C24: when torchlite's restore_models fails because some passed model has
\* no file, every passed model has the state it had before the call.
C24_RestoreAllOrNothing ==
    (rs_lib = "torchlite" /\ rs_result = "AssertionError") => rs_models = rs_passed

\* ---------------------------------------------------------------------- C25
\* C25: in a run that notifies a TQDM callback in the Learner's order, no
\* operation of the callback is made on a bar that does not exist yet or is
\* closed, and the counter of the training bar is the number of training
\* batches ended in the epoch, never more than the batches of the loop.
C25_BarsUsedWhileOpen ==
    /\ tq_used = {}
    /\ tq_err # "AttributeError"
    /\ tq.train_pbar.state # "none" =>
          /\ tq.train_pbar.n = tq_ended
          /\ tq.train_pbar.n <= tq_args.train_len

\* ---------------------------------------------------------------------- C26
\* C26: with fix_missing true, a DataFrame that transform returns has no NaN
\* in any column.
C26_ReturnedWithoutNaN ==
    (enc_op = "transform" /\ enc_fix_missing /\ enc_result.result = "returned") =>
        \A i \in 1..Len(enc_result.df) : ~enc_result.df[i].nan

\* ---------------------------------------------------------------------- C27
\* C27: on a fitted encoder, _check_integrity(df) returns True exactly when
\* the columns of df are the columns recorded by fit, in the same order; it
\* raises the 'do not match' error exactly when the two sets of columns
\* differ, and the 'do not have the same order' error exactly when the sets
\* are equal and the order differs; it has no other outcome.
C27_IntegrityOutcomes ==
    (enc_op = "check" /\ enc_tfs.stage = "cols") =>
        LET fitted == {enc_tfs.cols[i] : i \in 1..Len(enc_tfs.cols)}
            given == {enc_X[i].name : i \in 1..Len(enc_X)}
        IN /\ enc_result.result \in {"True", "ColumnsMismatch", "ColumnsOrder"}
           /\ enc_result.result = "True" <=> enc_tfs.cols = Columns(enc_X)
           /\ enc_result.result = "ColumnsMismatch" <=> fitted # given
           /\ enc_result.result = "ColumnsOrder" <=>
                 (fitted = given /\ enc_tfs.cols # Columns(enc_X))

\* the columns fitted as a, b and given as b, a
C27_Witness ==
    /\ enc_op = "check"
    /\ enc_tfs.cols = <<"a", "b">>
    /\ Columns(enc_X) = <<"b", "a">>
    /\ enc_result.result = "ColumnsOrder"

\* ---------------------------------------------------------------------- C28
\* The batches of one epoch: those of the training source and of the
\* validation source when there is one.
C28_BatchesPerEpoch == train_len + (IF val_len = NoSource THEN 0 ELSE val_len)

\* train has returned: on_train_end is the last call every registered
\* callback has received, and the core has processed each batch of each of
\* the num_epochs epochs once.
C28_Returned ==
    /\ failure = NoFailure
    /\ \A c \in Registered :
          /\ Seen(c) # <<>>
          /\ Seen(c)[Len(Seen(c))].hook = "on_train_end"
    /\ Len(CoreCalls) = num_epochs * C28_BatchesPerEpoch
    /\ num_epochs >= 1 => epoch = num_epochs

\* C28: a call of train with a finite number of epochs and finite sources, in
\* which every callback returns from every hook, returns: from its start it leads to the state
\* where on_train_end has been delivered and train has returned, having run
\* exactly num_epochs epochs and each batch of them once.
C28_TrainTerminates ==
    /\ (pc = "train_begin") ~> (pc = "done")
    /\ [](pc = "done" => C28_Returned)

C28_Witness ==
    /\ pc = "done"
    /\ run = 1
    /\ num_epochs = 2
    /\ train_len = 2
    /\ val_len = 2
    /\ Len(callbacks) = 2
    /\ Len(CoreCalls) = 8
    /\ C28_Returned

====
